---------------------------- MODULE Spec2Model ----------------------------
(***************************************************************************)
(* AXIS Single Time Axis: the tick pipeline, request intake, conflict      *)
(* groups, anchors with replay, and the termination policy, modelled from  *)
(* time_axis.cpp, termination.cpp, anchor.cpp and conflict_resolver.cpp.   *)
(*                                                                         *)
(* Every public entry point is one action.  64-bit quantities that the     *)
(* code multiplies or XORs (hashes, state-key hashes) are little-endian    *)
(* tuples of eight bytes, so that the arithmetic is exact modulo 2^64.     *)
(***************************************************************************)
EXTENDS Integers, Sequences, FiniteSets, TLC

(***************************************************************************)
(* Bounds of the model.  The handlers themselves are unbounded; each       *)
(* specification stops its host at the bounds named here.                   *)
(***************************************************************************)
\* Spec: slots ticked, request ids, group ids and anchor ids handed out
MaxSlot == 2
MaxRequests == 1
MaxGroups == 1
MaxAnchorId == 3
\* SpecTermination: slots ticked and request ids handed out
TermSlots == 3
TermRequests == 2
\* SpecReplay: slots ticked, request ids and anchor ids handed out
ReplaySlots == 2
ReplayRequests == 2
ReplayAnchorId == 3
IntakeSlots == 2
IntakeRequests == 3
CommitSlots == 2
CommitRequests == 2
CommitGroups == 1
MaxBucket == 3
\* SpecPolicy: slots ticked, request ids and anchor ids handed out
PolicySlots == 2
PolicyRequests == 1
PolicyAnchorId == 3
\* SpecGroups: group ids that may go to a custom group, and the highest id destroyed
GroupCustoms == 1
GroupDestroys == 1
\* SpecRace: slots ticked and request ids handed out
RaceSlots == 1
RaceRequests == 3

\* SpecPool: worker threads of the pool, tasks a tick submits
PoolWorkers == 2
PoolTasks == 3

\* SpecFallback: slots ticked, requests submitted, groups created
FallbackSlots == 2
FallbackRequests == 2
FallbackGroups == 1

(***************************************************************************)
(* 64-bit words as eight little-endian bytes                               *)
(***************************************************************************)
RECURSIVE BitXor(_, _)
BitXor(a, b) ==
    IF a = 0 THEN b
    ELSE IF b = 0 THEN a
    ELSE (((a % 2) + (b % 2)) % 2) + (2 * BitXor(a \div 2, b \div 2))

RECURSIVE BitAnd(_, _)
BitAnd(a, b) ==
    IF a = 0 \/ b = 0 THEN 0
    ELSE ((a % 2) * (b % 2)) + (2 * BitAnd(a \div 2, b \div 2))

\* the word of a number below 2^31 (the high four bytes are zero)
ToWord(n) ==
    << n % 256, (n \div 256) % 256, (n \div 65536) % 256,
       (n \div 16777216) % 256, 0, 0, 0, 0 >>

WordXor(x, y) == [i \in 1..8 |-> BitXor(x[i], y[i])]

\* column k (1..8) of the schoolbook product, without carries
MulColumn(x, y, k) ==
    LET RECURSIVE Sum(_)
        Sum(i) == IF i > k THEN 0 ELSE (x[i] * y[(k + 1) - i]) + Sum(i + 1)
    IN Sum(1)

\* x * y modulo 2^64
WordMul(x, y) ==
    LET RECURSIVE Go(_, _)
        Go(k, carry) ==
            IF k > 8 THEN << >>
            ELSE LET t == MulColumn(x, y, k) + carry
                 IN << t % 256 >> \o Go(k + 1, t \div 256)
    IN Go(1, 0)

\* 0x100000001b3
FnvPrime == << 179, 1, 0, 0, 0, 1, 0, 0 >>
\* 0x9e3779b97f4a7c15
GoldenRatio == << 21, 124, 74, 127, 185, 121, 55, 158 >>
\* 0xDEADBEEFCAFEBABE
CallbackSentinel == << 190, 186, 254, 202, 239, 190, 173, 222 >>

(***************************************************************************)
(* Termination policy                                                      *)
(***************************************************************************)
\* termination callbacks a host may register: deterministic functions of the
\* context ("null" is the absent callback)
Callbacks == {"null", "never", "fourSteps", "thirdStep"}

CustomCallbackResult(cb, ctx) ==
    CASE cb = "never" -> 0
      [] cb = "fourSteps" -> IF ctx.elapsed_steps >= 4 THEN 1 ELSE 0
      [] cb = "thirdStep" -> IF ctx.elapsed_steps = 3 THEN 1 ELSE 0
      [] OTHER -> 0

AxisTermination_DefaultConfig ==
    [step_limit |-> 0, safety_cap |-> 10000,
     terminate_on_request_drain |-> 0, terminate_on_group_resolution |-> 0,
     required_external_flags |-> 0, custom_callback |-> "null"]

\* a variant that tests the step limit before the safety cap; C5 rules it out
EvaluateStepLimitFirst(config, ctx) ==
    IF config.step_limit > 0 /\ ctx.elapsed_steps >= config.step_limit
        THEN "STEP_LIMIT"
    ELSE IF config.safety_cap > 0 /\ ctx.elapsed_steps >= config.safety_cap
        THEN "SAFETY_CAP"
    ELSE IF config.terminate_on_request_drain # 0 /\ ctx.pending_requests = 0
        THEN "REQUEST_DRAIN"
    ELSE IF config.terminate_on_group_resolution # 0
            /\ ctx.total_groups > 0
            /\ ctx.resolved_groups >= ctx.total_groups
        THEN "GROUP_RESOLUTION"
    ELSE IF config.required_external_flags # 0
            /\ BitAnd(ctx.external_flags, config.required_external_flags) # 0
        THEN "EXTERNAL_SIGNAL"
    ELSE IF config.custom_callback # "null"
            /\ CustomCallbackResult(config.custom_callback, ctx) # 0
        THEN "CUSTOM_CALLBACK"
    ELSE "NONE"

\* a variant that wants the flags equal to the mask instead of overlapping it; C8
\* rules it out
EvaluateFlagsEqual(config, ctx) ==
    IF config.safety_cap > 0 /\ ctx.elapsed_steps >= config.safety_cap
        THEN "SAFETY_CAP"
    ELSE IF config.step_limit > 0 /\ ctx.elapsed_steps >= config.step_limit
        THEN "STEP_LIMIT"
    ELSE IF config.terminate_on_request_drain # 0 /\ ctx.pending_requests = 0
        THEN "REQUEST_DRAIN"
    ELSE IF config.terminate_on_group_resolution # 0
            /\ ctx.total_groups > 0
            /\ ctx.resolved_groups >= ctx.total_groups
        THEN "GROUP_RESOLUTION"
    ELSE IF config.required_external_flags # 0
            /\ ctx.external_flags = config.required_external_flags
        THEN "EXTERNAL_SIGNAL"
    ELSE IF config.custom_callback # "null"
            /\ CustomCallbackResult(config.custom_callback, ctx) # 0
        THEN "CUSTOM_CALLBACK"
    ELSE "NONE"

\* a variant without the safety cap; C34 rules it out
EvaluateWithoutSafetyCap(config, ctx) ==
    IF config.step_limit > 0 /\ ctx.elapsed_steps >= config.step_limit
        THEN "STEP_LIMIT"
    ELSE IF config.terminate_on_request_drain # 0 /\ ctx.pending_requests = 0
        THEN "REQUEST_DRAIN"
    ELSE IF config.terminate_on_group_resolution # 0
            /\ ctx.total_groups > 0
            /\ ctx.resolved_groups >= ctx.total_groups
        THEN "GROUP_RESOLUTION"
    ELSE IF config.required_external_flags # 0
            /\ BitAnd(ctx.external_flags, config.required_external_flags) # 0
        THEN "EXTERNAL_SIGNAL"
    ELSE IF config.custom_callback # "null"
            /\ CustomCallbackResult(config.custom_callback, ctx) # 0
        THEN "CUSTOM_CALLBACK"
    ELSE "NONE"

Evaluate(config, ctx) ==
    IF config.safety_cap > 0 /\ ctx.elapsed_steps >= config.safety_cap
        THEN "SAFETY_CAP"
    ELSE IF config.step_limit > 0 /\ ctx.elapsed_steps >= config.step_limit
        THEN "STEP_LIMIT"
    ELSE IF config.terminate_on_request_drain # 0 /\ ctx.pending_requests = 0
        THEN "REQUEST_DRAIN"
    ELSE IF config.terminate_on_group_resolution # 0
            /\ ctx.total_groups > 0
            /\ ctx.resolved_groups >= ctx.total_groups
        THEN "GROUP_RESOLUTION"
    ELSE IF config.required_external_flags # 0
            /\ BitAnd(ctx.external_flags, config.required_external_flags) # 0
        THEN "EXTERNAL_SIGNAL"
    ELSE IF config.custom_callback # "null"
            /\ CustomCallbackResult(config.custom_callback, ctx) # 0
        THEN "CUSTOM_CALLBACK"
    ELSE "NONE"

GetPolicyHash(config) ==
    LET h1 == WordMul(WordXor(GoldenRatio, ToWord(config.step_limit)), FnvPrime)
        h2 == WordMul(WordXor(h1, ToWord(config.safety_cap)), FnvPrime)
        h3 == WordMul(WordXor(h2, ToWord(config.terminate_on_request_drain)), FnvPrime)
        h4 == WordMul(WordXor(h3, ToWord(config.terminate_on_group_resolution)), FnvPrime)
        h5 == WordMul(WordXor(h4, ToWord(config.required_external_flags)), FnvPrime)
    IN IF config.custom_callback # "null" THEN WordXor(h5, CallbackSentinel) ELSE h5

(***************************************************************************)
(* Requests, state keys and conflict groups                                *)
(***************************************************************************)
\* state keys (primary, secondary) a host uses; one has a secondary part
Keys == { [primary |-> 1, secondary |-> 0], [primary |-> 2, secondary |-> 1] }

\* 64-bit payloads a host writes
Values == {1, 2}

MakeStateKeyHash(key) ==
    WordXor(ToWord(key.primary), WordMul(ToWord(key.secondary), GoldenRatio))

\* the hashes of the keys in use, computed once
KeyHashOf == [k \in Keys |-> MakeStateKeyHash(k)]

KeyHashes == { KeyHashOf[k] : k \in Keys }

\* what a request does: (mutation_type, value, priority)
Payloads ==
    { [mutation_type |-> "SET", value |-> 1, priority |-> 0],
      [mutation_type |-> "SET", value |-> 2, priority |-> 1],
      [mutation_type |-> "DELETE", value |-> 0, priority |-> 0] }

BuiltinPolicies == {"PRIORITY", "LAST_WRITER", "FIRST_WRITER"}

\* descriptors over the given targets, groups, keys and payloads
DescsOver(targets, groups, keys, payloads) ==
    { [target_slot |-> t, conflict_group |-> g, priority |-> p.priority, key |-> k,
       mutation_type |-> p.mutation_type, value |-> p.value] :
        t \in targets, g \in groups, k \in keys, p \in payloads }

(***************************************************************************)
(* Conflict resolution (conflict_resolver.cpp)                             *)
(***************************************************************************)
\* a variant that leaves the bucket in arrival order; C18 rules it out
SortByIdUnsorted(reqs) == reqs

\* std::sort of a bucket by ascending request id (ids are unique)
RECURSIVE SortById(_)
SortById(reqs) ==
    IF reqs = << >> THEN << >>
    ELSE LET i == CHOOSE i \in 1..Len(reqs) :
                    \A j \in 1..Len(reqs) : reqs[i].id <= reqs[j].id
         IN << reqs[i] >>
            \o SortById(SubSeq(reqs, 1, i - 1) \o SubSeq(reqs, i + 1, Len(reqs)))

\* a variant that breaks a priority tie towards the higher id; C16 rules it out
ResolvePriorityPolicyTieHighest(reqs) ==
    LET RECURSIVE Scan(_, _)
        Scan(i, w) ==
            IF i > Len(reqs) THEN w
            ELSE IF reqs[i].desc.priority > reqs[w].desc.priority
                    \/ (reqs[i].desc.priority = reqs[w].desc.priority
                        /\ reqs[i].id > reqs[w].id)
                 THEN Scan(i + 1, i)
                 ELSE Scan(i + 1, w)
    IN Scan(2, 1)

\* the loops below return a 1-based index: the code's winner index plus one
ResolvePriorityPolicy(reqs) ==
    LET RECURSIVE Scan(_, _)
        Scan(i, w) ==
            IF i > Len(reqs) THEN w
            ELSE IF reqs[i].desc.priority > reqs[w].desc.priority
                    \/ (reqs[i].desc.priority = reqs[w].desc.priority
                        /\ reqs[i].id < reqs[w].id)
                 THEN Scan(i + 1, i)
                 ELSE Scan(i + 1, w)
    IN Scan(2, 1)

\* a variant that keeps the first of the bucket; C17 rules it out
ResolveLastWriterPolicyFirst(reqs) == 1

ResolveLastWriterPolicy(reqs) ==
    LET RECURSIVE Scan(_, _)
        Scan(i, w) ==
            IF i > Len(reqs) THEN w
            ELSE IF reqs[i].id > reqs[w].id THEN Scan(i + 1, i) ELSE Scan(i + 1, w)
    IN Scan(2, 1)

\* a variant that keeps the last of the bucket; C15 rules it out
ResolveFirstWriterPolicyLast(reqs) == Len(reqs)

ResolveFirstWriterPolicy(reqs) ==
    LET RECURSIVE Scan(_, _)
        Scan(i, w) ==
            IF i > Len(reqs) THEN w
            ELSE IF reqs[i].id < reqs[w].id THEN Scan(i + 1, i) ELSE Scan(i + 1, w)
    IN Scan(2, 1)

\* custom policy functions a host may register: deterministic functions of the
\* group id and the descriptors ("null" is the absent function)
CustomFns == {"last", "failing", "pastEnd"}

\* what a custom function returns and the index it leaves in *out_winner, which
\* the caller initialised to 0: "last" picks the last descriptor, "failing"
\* writes that index too but reports an error, "pastEnd" writes request_count
CustomFnCall(fn, group_id, descs) ==
    CASE fn = "last" -> [result |-> 0, winner_index |-> Len(descs) - 1]
      [] fn = "failing" -> [result |-> 1, winner_index |-> Len(descs) - 1]
      [] fn = "pastEnd" -> [result |-> 0, winner_index |-> Len(descs)]
      [] OTHER -> [result |-> 0, winner_index |-> 0]

\* the descriptors handed to the custom function, in bucket order
DescsOf(key_requests) == [i \in 1..Len(key_requests) |-> key_requests[i].desc]

\* the switch on group.policy; the default branch takes the first of the bucket
WinnerIndex(group, key_requests) ==
    CASE group.policy = "PRIORITY" -> ResolvePriorityPolicy(key_requests)
      [] group.policy = "LAST_WRITER" -> ResolveLastWriterPolicy(key_requests)
      [] group.policy = "FIRST_WRITER" -> ResolveFirstWriterPolicy(key_requests)
      [] group.policy = "CUSTOM" ->
            IF group.custom_fn # "null"
            THEN LET call == CustomFnCall(group.custom_fn, group.id, DescsOf(key_requests))
                 IN IF call.result = 0 /\ call.winner_index < Len(key_requests)
                    THEN call.winner_index + 1
                    ELSE 1
            ELSE 1
      [] OTHER -> 1

\* the requests of one bucket of by_key, in arrival order
RequestsForKey(reqs, kh) == SelectSeq(reqs, LAMBDA r : KeyHashOf[r.desc.key] = kh)

\* the change one bucket yields: none when the winner is a DELETE
KeyChange(group, reqs, kh) ==
    LET key_requests == SortById(RequestsForKey(reqs, kh))
        winner == key_requests[WinnerIndex(group, key_requests)]
    IN IF winner.desc.mutation_type # "DELETE"
       THEN << [key |-> winner.desc.key, value |-> winner.desc.value] >>
       ELSE << >>

\* by_key is an unordered_map: its iteration order is the implementation's, so
\* the buckets are visited in an order the caller chooses (keyOrder, a sequence
\* of all key hashes); it always returns true
ResolveConflictGroup(group, reqs, keyOrder) ==
    LET RECURSIVE Visit(_)
        Visit(n) ==
            IF n > Len(keyOrder) THEN << >>
            ELSE (IF RequestsForKey(reqs, keyOrder[n]) = << >> THEN << >>
                  ELSE KeyChange(group, reqs, keyOrder[n]))
                 \o Visit(n + 1)
    IN [group_id |-> group.id, resolved_changes |-> Visit(1)]

(***************************************************************************)
(* The axis (TimeAxisState)                                                *)
(***************************************************************************)
VARIABLES
    config,                 \* AxisTimeAxisConfig after validation
    termination_config,     \* termination_policy.config
    lifecycle,              \* "ACTIVE" or "TERMINATED"
    current_slot,
    next_request_id,
    next_group_id,
    pending_requests,       \* sequence of [id, desc, cancelled]
    conflict_groups,        \* sequence of [id, policy, custom_fn, active]
    anchors,                \* sequence of AnchorData, oldest first
    last_anchor_slot,
    next_anchor_id,
    pending_transitions,    \* sequence of SlotTransition
    current_state,          \* key hash -> value
    termination_context,
    external_flags,
    last_termination_reason,
    termination_policy_hash,
    stats,                  \* total_requests_processed, total_conflicts_resolved
    ret,                    \* the last call: its name and result code
    history,                \* history[s + 1]: the working state when slot s was committed
    in_flight,              \* calls in progress: what a tick has collected, and the
                            \* descriptor a submit has validated, each << >> when idle
    pool                    \* worker_pool: the task queue, active_tasks_, where each
                            \* worker thread stands, and where the thread that
                            \* submits and waits stands

axisVars ==
    << config, termination_config, lifecycle, current_slot, next_request_id,
       next_group_id, pending_requests, conflict_groups, anchors, last_anchor_slot,
       next_anchor_id, pending_transitions, current_state, termination_context,
       external_flags, last_termination_reason, termination_policy_hash, stats >>

vars == << axisVars, ret, history, in_flight, pool >>

(***************************************************************************)
(* The worker pool (WorkerPool in conflict_resolver.cpp)                   *)
(***************************************************************************)
\* the pool after construction: every worker waits on condition_, nothing is
\* queued, and the tick thread is outside WaitAll
PoolAtRest ==
    [tasks |-> 0, active_tasks |-> 0, worker |-> [w \in 1..PoolWorkers |-> "waiting"],
     waiter |-> "idle", submitted |-> 0, finished |-> 0]

\* a step of the pool, which touches nothing else of the axis
PoolStep(next) ==
    /\ pool' = next
    /\ UNCHANGED << axisVars, ret, history, in_flight >>

\* a variant that looks at the queue only; C32 rules it out
WaitAllDoneQueueOnly(p) == p.tasks = 0

\* the predicate WaitAll waits for: tasks_.empty() && active_tasks_.load() == 0
WaitAllDone(p) == p.tasks = 0 /\ p.active_tasks = 0

\* WorkerPool::Submit, called by the tick thread once per group: the push and the
\* increment happen under queue_mutex_
Submit ==
    /\ pool.waiter = "idle"
    /\ pool.submitted < PoolTasks
    /\ PoolStep([pool EXCEPT !.tasks = @ + 1, !.active_tasks = @ + 1,
                             !.submitted = @ + 1])

\* WorkerPool::WaitAll: done_condition_.wait(lock, pred) evaluates pred holding
\* queue_mutex_ ("checked" when it was false) and then, in a second step, releases
\* the mutex and blocks; a woken waiter takes the mutex and evaluates pred again
WaitAll ==
    \/ /\ pool.waiter \in {"idle", "woken"}
       /\ PoolStep([pool EXCEPT
                      !.waiter = IF WaitAllDone(pool) THEN "returned" ELSE "checked"])
    \/ /\ pool.waiter = "checked"
       /\ PoolStep([pool EXCEPT !.waiter = "blocked"])

\* WorkerPool::WorkerThread, one worker: it takes a task under queue_mutex_, runs
\* it, decrements active_tasks_ without the mutex, and if that left 0 calls
\* done_condition_.notify_all(), which wakes only a thread that is blocked
WorkerThread(w) ==
    \/ /\ pool.worker[w] = "waiting"
       /\ pool.tasks > 0
       /\ pool.waiter # "checked"
       /\ PoolStep([pool EXCEPT !.tasks = @ - 1, !.worker[w] = "task"])
    \/ /\ pool.worker[w] = "task"
       /\ PoolStep([pool EXCEPT
                      !.finished = @ + 1,
                      !.active_tasks = @ - 1,
                      !.worker[w] = IF pool.active_tasks = 1 THEN "notify"
                                    ELSE "waiting"])
    \/ /\ pool.worker[w] = "notify"
       /\ PoolStep([pool EXCEPT
                      !.worker[w] = "waiting",
                      !.waiter = IF @ = "blocked" THEN "woken" ELSE @])

\* a condition variable may wake a blocked thread without a notification; nothing
\* obliges it to
SpuriousWakeup ==
    /\ pool.waiter = "blocked"
    /\ PoolStep([pool EXCEPT !.waiter = "woken"])

\* no call in progress
Idle == [tick |-> << >>, submit |-> << >>, batch |-> << >>]

\* the empty working state
EmptyState == [h \in {} |-> 0]

\* state[key_hash] = value
Store(state, kh, value) ==
    [h \in (DOMAIN state) \cup {kh} |-> IF h = kh THEN value ELSE state[h]]

\* the axis configs a host creates the axis with
AxisConfigs ==
    { [anchor_interval |-> 2, max_anchors |-> 2, max_pending_requests |-> 2] }

Call(op, result) == [op |-> op, result |-> result]

\* a call recorded with the argument it was made with
CallOn(op, arg, result) == [op |-> op, arg |-> arg, result |-> result]

\* a variant that creates no genesis anchor; C27 rules it out
CreateWithoutGenesis(tconfigs) ==
    /\ config \in AxisConfigs
    /\ termination_config \in tconfigs
    /\ lifecycle = "ACTIVE"
    /\ current_slot = 0
    /\ next_request_id = 1
    /\ next_group_id = 0
    /\ pending_requests = << >>
    /\ conflict_groups = << >>
    /\ termination_policy_hash = GetPolicyHash(termination_config)
    /\ anchors = << >>
    /\ last_anchor_slot = 0
    /\ next_anchor_id = 1
    /\ pending_transitions = << >>
    /\ current_state = EmptyState
    /\ termination_context =
          [elapsed_steps |-> 0, pending_requests |-> 0, resolved_groups |-> 0,
           total_groups |-> 0, external_flags |-> 0]
    /\ external_flags = 0
    /\ last_termination_reason = "NONE"
    /\ stats = [total_requests_processed |-> 0, total_conflicts_resolved |-> 0]
    /\ ret = Call("Create", "OK")
    /\ history = << EmptyState >>
    /\ in_flight = Idle
    /\ pool = PoolAtRest

\* AxisTimeAxis_Create, for a host that picks its termination config in tconfigs
Create(tconfigs) ==
    /\ config \in AxisConfigs
    /\ termination_config \in tconfigs
    /\ lifecycle = "ACTIVE"
    /\ current_slot = 0
    /\ next_request_id = 1
    /\ next_group_id = 0
    /\ pending_requests = << >>
    /\ conflict_groups = << >>
    /\ termination_policy_hash = GetPolicyHash(termination_config)
    /\ anchors = << [anchor_id |-> 1, slot_index |-> 0, state_snapshot |-> EmptyState,
                     transition_log |-> << >>,
                     termination_policy_hash |-> termination_policy_hash] >>
    /\ last_anchor_slot = 0
    /\ next_anchor_id = 2
    /\ pending_transitions = << >>
    /\ current_state = EmptyState
    /\ termination_context =
          [elapsed_steps |-> 0, pending_requests |-> 0, resolved_groups |-> 0,
           total_groups |-> 0, external_flags |-> 0]
    /\ external_flags = 0
    /\ last_termination_reason = "NONE"
    /\ stats = [total_requests_processed |-> 0, total_conflicts_resolved |-> 0]
    /\ ret = Call("Create", "OK")
    /\ history = << EmptyState >>
    /\ in_flight = Idle
    /\ pool = PoolAtRest

(***************************************************************************)
(* Tick (AxisTimeAxis_Tick)                                                *)
(***************************************************************************)
\* a variant that also takes cancelled requests; C20 rules it out
CollectSlotRequestsWithCancelled(queue, target) ==
    SelectSeq(queue, LAMBDA r : r.desc.target_slot = target)

\* step 1: the requests taken out of the queue for target, in queue order
CollectSlotRequests(queue, target) ==
    SelectSeq(queue, LAMBDA r : ~r.cancelled /\ r.desc.target_slot = target)

\* a variant that leaves the cancelled entries of other slots in place; C33 rules
\* it out
RemainingRequestsKeepingCancelled(queue, target) ==
    SelectSeq(queue, LAMBDA r : r.desc.target_slot # target)

\* step 1: what the queue holds afterwards (cancelled entries are erased too)
RemainingRequests(queue, target) ==
    SelectSeq(queue, LAMBDA r : ~r.cancelled /\ r.desc.target_slot # target)

\* step 2: the keys of grouped_requests
GroupIdsOf(reqs) == { reqs[i].desc.conflict_group : i \in 1..Len(reqs) }

\* step 2: one bucket of grouped_requests
RequestsOfGroup(reqs, gid) == SelectSeq(reqs, LAMBDA r : r.desc.conflict_group = gid)

\* a variant that also takes the entry of a destroyed group; C36 rules it out
FindGroupIgnoringActive(groups_copy, gid) ==
    IF \E i \in 1..Len(groups_copy) : groups_copy[i].id = gid
    THEN groups_copy[CHOOSE i \in 1..Len(groups_copy) :
            /\ groups_copy[i].id = gid
            /\ \A j \in 1..(i - 1) : groups_copy[j].id # gid]
    ELSE [id |-> gid, policy |-> "FIRST_WRITER", custom_fn |-> "null", active |-> TRUE]

\* step 3: the group configuration a worker task resolves with
FindGroup(groups_copy, gid) ==
    IF \E i \in 1..Len(groups_copy) : groups_copy[i].id = gid /\ groups_copy[i].active
    THEN groups_copy[CHOOSE i \in 1..Len(groups_copy) :
            /\ groups_copy[i].id = gid /\ groups_copy[i].active
            /\ \A j \in 1..(i - 1) : ~(groups_copy[j].id = gid /\ groups_copy[j].active)]
    ELSE [id |-> gid, policy |-> "FIRST_WRITER", custom_fn |-> "null", active |-> TRUE]

\* the orders in which an unordered_map may hand out its buckets
KeyOrders ==
    { o \in [1..Cardinality(KeyHashes) -> KeyHashes] :
        \A i, j \in DOMAIN o : i # j => o[i] # o[j] }

\* step 3: the orders in which the worker tasks of the groups may complete, each
\* taking the next free index of resolution_results
CompletionOrders(ids) ==
    { c \in [1..Cardinality(ids) -> ids] : \A i, j \in DOMAIN c : i # j => c[i] # c[j] }

\* step 3: resolution_results as the tasks filled it, in completion order
ResolutionResults(reqs, groups_copy, order, completion) ==
    [n \in 1..Len(completion) |->
        ResolveConflictGroup(FindGroup(groups_copy, completion[n]),
                             RequestsOfGroup(reqs, completion[n]),
                             order[completion[n]])]

\* a variant that sorts by descending group_id; C13 rules it out
RECURSIVE SortByGroupIdDescending(_)
SortByGroupIdDescending(results) ==
    IF results = << >> THEN << >>
    ELSE LET i == CHOOSE i \in 1..Len(results) :
                    \A j \in 1..Len(results) : results[i].group_id >= results[j].group_id
         IN << results[i] >>
            \o SortByGroupIdDescending(SubSeq(results, 1, i - 1)
                                       \o SubSeq(results, i + 1, Len(results)))

\* a variant that commits in completion order; C14 rules it out
SortByGroupIdUnsorted(results) == results

\* step 4: std::sort of the results by ascending group_id (group ids are unique)
RECURSIVE SortByGroupId(_)
SortByGroupId(results) ==
    IF results = << >> THEN << >>
    ELSE LET i == CHOOSE i \in 1..Len(results) :
                    \A j \in 1..Len(results) : results[i].group_id <= results[j].group_id
         IN << results[i] >>
            \o SortByGroupId(SubSeq(results, 1, i - 1)
                             \o SubSeq(results, i + 1, Len(results)))

\* steps 4-5: the changes of the results, concatenated in the order they stand
RECURSIVE ChangesOf(_)
ChangesOf(results) ==
    IF results = << >> THEN << >>
    ELSE results[1].resolved_changes \o ChangesOf(Tail(results))

\* steps 3-5: the changes a tick commits and records, given the order in which
\* each group visits its keys and the order in which the tasks complete
ResolvedChanges(reqs, groups_copy, order, completion) ==
    ChangesOf(SortByGroupId(ResolutionResults(reqs, groups_copy, order, completion)))

\* step 4 and ApplyTransitionToState: state[MakeStateKeyHash(key)] = value, in order
RECURSIVE ApplyChanges(_, _)
ApplyChanges(state, changes) ==
    IF changes = << >> THEN state
    ELSE ApplyChanges(Store(state, KeyHashOf[changes[1].key], changes[1].value),
                      Tail(changes))

\* step 7: the condition under which the tick creates an anchor
AnchorDue(target, last, interval) == target - last >= interval

\* the requests of all pending transitions, as copied into an anchor
RECURSIVE TransitionLog(_)
TransitionLog(transitions) ==
    IF transitions = << >> THEN << >>
    ELSE transitions[1].requests \o TransitionLog(Tail(transitions))

\* a variant that erases the back, dropping the newest anchor; C26 rules it out
RECURSIVE PruneAnchorsNewest(_, _)
PruneAnchorsNewest(ring, max) ==
    IF Len(ring) > max THEN PruneAnchorsNewest(SubSeq(ring, 1, Len(ring) - 1), max)
    ELSE ring

\* the prune loop: erase the front while the ring is over max_anchors
RECURSIVE PruneAnchors(_, _)
PruneAnchors(ring, max) ==
    IF Len(ring) > max THEN PruneAnchors(Tail(ring), max) ELSE ring

\* a variant that leaves the anchor's policy hash at its default; C25 rules it out
NewAnchorUnstamped(id, slot, state, transitions, policy_hash) ==
    [anchor_id |-> id, slot_index |-> slot, state_snapshot |-> state,
     transition_log |-> TransitionLog(transitions),
     termination_policy_hash |-> ToWord(0)]

\* a variant whose snapshot is empty; C38 rules it out
NewAnchorEmptySnapshot(id, slot, state, transitions, policy_hash) ==
    [anchor_id |-> id, slot_index |-> slot, state_snapshot |-> EmptyState,
     transition_log |-> TransitionLog(transitions),
     termination_policy_hash |-> policy_hash]

\* the anchor both the tick and create_anchor_now build and push
NewAnchor(id, slot, state, transitions, policy_hash) ==
    [anchor_id |-> id, slot_index |-> slot, state_snapshot |-> state,
     transition_log |-> TransitionLog(transitions),
     termination_policy_hash |-> policy_hash]

\* the first "Step 10" block: context update before the first evaluation, whose
\* reason the second block overwrites
FirstTerminationBlock(ctx, queue_size, groups_seen, flags) ==
    [elapsed_steps |-> ctx.elapsed_steps + 1, pending_requests |-> queue_size,
     resolved_groups |-> groups_seen, total_groups |-> groups_seen,
     external_flags |-> flags]

\* a variant that reports an empty queue whatever is left; C7 rules it out
SecondTerminationBlockDrained(ctx, queue_size, resolved_groups, total_groups, flags) ==
    [elapsed_steps |-> ctx.elapsed_steps + 1, pending_requests |-> 0,
     resolved_groups |-> resolved_groups, total_groups |-> total_groups,
     external_flags |-> flags]

\* a variant that counts no group as resolved; C40 rules it out
SecondTerminationBlockUnresolved(ctx, queue_size, resolved_groups, total_groups, flags) ==
    [elapsed_steps |-> ctx.elapsed_steps + 1, pending_requests |-> queue_size,
     resolved_groups |-> 0, total_groups |-> total_groups,
     external_flags |-> flags]

\* the second "Step 10" block: context update before the evaluation that decides
SecondTerminationBlock(ctx, queue_size, resolved_groups, total_groups, flags) ==
    [elapsed_steps |-> ctx.elapsed_steps + 1, pending_requests |-> queue_size,
     resolved_groups |-> resolved_groups, total_groups |-> total_groups,
     external_flags |-> flags]

\* a variant that skips a slot; C1 rules it out
TargetSlotSkipping(slot) == slot + 2

\* step 8 operand: the slot a successful tick stores
TargetSlot(slot) == slot + 1

\* a variant without the gate; C4 rules it out
TickRejectedNever == FALSE

\* the lifecycle gate at the head of the tick
TickRejected == lifecycle = "TERMINATED"

\* a variant that never leaves the lifecycle it found; C37 rules it out
LifecycleAfterUnchanged(reason, before) == before

\* the lifecycle transition that ends the tick
LifecycleAfter(reason, before) == IF reason # "NONE" THEN "TERMINATED" ELSE before

\* steps 2 to 10: what the tick does with the requests it collected, queue_size
\* being the size of the queue when the termination blocks read it
TickCommit(slot_requests, queue_size) ==
    LET target == TargetSlot(current_slot)
        total_groups == Cardinality(GroupIdsOf(slot_requests))
    IN \E order \in [GroupIdsOf(slot_requests) -> KeyOrders],
          completion \in CompletionOrders(GroupIdsOf(slot_requests)) :
       LET changes == ResolvedChanges(slot_requests, conflict_groups, order,
                                      completion)
           new_state == ApplyChanges(current_state, changes)
           transition == [slot_index |-> target, requests |-> slot_requests,
                          resolved_changes |-> changes]
           transitions == Append(pending_transitions, transition)
           due == AnchorDue(target, last_anchor_slot, config.anchor_interval)
           ctx1 == FirstTerminationBlock(termination_context, queue_size,
                                         total_groups, external_flags)
           ctx2 == SecondTerminationBlock(ctx1, queue_size, total_groups,
                                          total_groups, external_flags)
           reason == Evaluate(termination_config, ctx2)
       IN /\ current_state' = new_state
          /\ stats' =
               [total_requests_processed |->
                   stats.total_requests_processed + Len(slot_requests),
                total_conflicts_resolved |->
                   stats.total_conflicts_resolved
                   + (IF Len(slot_requests) > Len(changes)
                      THEN Len(slot_requests) - Len(changes) ELSE 0)]
          /\ IF due
             THEN /\ anchors' = PruneAnchors(
                         Append(anchors, NewAnchor(next_anchor_id, target, new_state,
                                                   transitions, termination_policy_hash)),
                         config.max_anchors)
                  /\ next_anchor_id' = next_anchor_id + 1
                  /\ last_anchor_slot' = target
                  /\ pending_transitions' = << >>
             ELSE /\ pending_transitions' = transitions
                  /\ UNCHANGED << anchors, next_anchor_id, last_anchor_slot >>
          /\ current_slot' = target
          /\ termination_context' = ctx2
          /\ last_termination_reason' = reason
          /\ lifecycle' = LifecycleAfter(reason, lifecycle)
          /\ history' = Append(history, new_state)
          /\ ret' = Call("Tick", "OK")
          /\ UNCHANGED << config, termination_config, next_request_id, next_group_id,
                          conflict_groups, external_flags, termination_policy_hash,
                          pool >>

\* the tick, run without another call in between
Tick ==
    IF TickRejected
    THEN /\ ret' = Call("Tick", "TERMINATED")
         /\ UNCHANGED << axisVars, history, in_flight, pool >>
    ELSE
      /\ pending_requests' = RemainingRequests(pending_requests, TargetSlot(current_slot))
      /\ TickCommit(CollectSlotRequests(pending_requests, TargetSlot(current_slot)),
                    Len(RemainingRequests(pending_requests, TargetSlot(current_slot))))
      /\ UNCHANGED in_flight

\* the tick up to the end of step 1, where it releases the queue
TickCollect ==
    /\ in_flight.tick = << >>
    /\ IF TickRejected
       THEN /\ ret' = Call("Tick", "TERMINATED")
            /\ UNCHANGED << axisVars, history, in_flight, pool >>
       ELSE /\ pending_requests' =
                  RemainingRequests(pending_requests, TargetSlot(current_slot))
            /\ in_flight' =
                  [in_flight EXCEPT
                     !.tick = << CollectSlotRequests(pending_requests,
                                                     TargetSlot(current_slot)) >>]
            /\ UNCHANGED << config, termination_config, lifecycle, current_slot,
                            next_request_id, next_group_id, conflict_groups, anchors,
                            last_anchor_slot, next_anchor_id, pending_transitions,
                            current_state, termination_context, external_flags,
                            last_termination_reason, termination_policy_hash, stats,
                            ret, history, pool >>

\* the rest of the tick, on the queue as it is by then
TickFinish ==
    /\ in_flight.tick # << >>
    /\ TickCommit(in_flight.tick[1], Len(pending_requests))
    /\ in_flight' = [in_flight EXCEPT !.tick = << >>]
    /\ UNCHANGED pending_requests

(***************************************************************************)
(* Request intake (AxisTimeAxis_SubmitRequest, _SubmitRequestBatch,        *)
(* _CancelRequest)                                                         *)
(***************************************************************************)
\* a variant that admits requests for the current slot; C11 rules it out
SlotInPastStrict(desc, current) == desc.target_slot < current

\* the slot validation of submit and submit_batch
SlotInPast(desc, current) == desc.target_slot <= current

\* a variant that admits only the first descriptor; C12 rules it out
BatchRecordsFirstOnly(descs, first_id) ==
    IF descs = << >> THEN << >>
    ELSE << [id |-> first_id, desc |-> descs[1], cancelled |-> FALSE] >>

\* the records a batch appends, with consecutive ids starting at first_id
RECURSIVE BatchRecords(_, _)
BatchRecords(descs, first_id) ==
    IF descs = << >> THEN << >>
    ELSE << [id |-> first_id, desc |-> descs[1], cancelled |-> FALSE] >>
         \o BatchRecords(Tail(descs), first_id + 1)

\* a variant that refuses only a queue already over its capacity; C35 rules it out
SubmitLockedOverfull(desc) ==
    IF Len(pending_requests) > config.max_pending_requests
    THEN /\ ret' = CallOn("SubmitRequest", desc, "REQUEST_QUEUE_FULL")
         /\ UNCHANGED << pending_requests, next_request_id >>
    ELSE /\ pending_requests' = Append(pending_requests,
                 [id |-> next_request_id, desc |-> desc, cancelled |-> FALSE])
         /\ next_request_id' = next_request_id + 1
         /\ ret' = CallOn("SubmitRequest", desc, "OK")

\* submit under the queue lock: the capacity check and the append
SubmitLocked(desc) ==
    IF Len(pending_requests) >= config.max_pending_requests
    THEN /\ ret' = CallOn("SubmitRequest", desc, "REQUEST_QUEUE_FULL")
         /\ UNCHANGED << pending_requests, next_request_id >>
    ELSE /\ pending_requests' = Append(pending_requests,
                 [id |-> next_request_id, desc |-> desc, cancelled |-> FALSE])
         /\ next_request_id' = next_request_id + 1
         /\ ret' = CallOn("SubmitRequest", desc, "OK")

\* submit, run without another call in between
SubmitRequest(desc) ==
    /\ IF SlotInPast(desc, current_slot)
       THEN /\ ret' = CallOn("SubmitRequest", desc, "SLOT_IN_PAST")
            /\ UNCHANGED << pending_requests, next_request_id >>
       ELSE SubmitLocked(desc)
    /\ UNCHANGED << config, termination_config, lifecycle, current_slot, next_group_id,
                    conflict_groups, anchors, last_anchor_slot, next_anchor_id,
                    pending_transitions, current_state, termination_context,
                    external_flags, last_termination_reason, termination_policy_hash,
                    stats, history, in_flight, pool >>

\* submit up to the slot validation, which reads current_slot before the queue lock
\* is taken
SubmitCheck(desc) ==
    /\ in_flight.submit = << >>
    /\ IF SlotInPast(desc, current_slot)
       THEN /\ ret' = CallOn("SubmitRequest", desc, "SLOT_IN_PAST")
            /\ UNCHANGED in_flight
       ELSE /\ in_flight' = [in_flight EXCEPT !.submit = << desc >>]
            /\ UNCHANGED ret
    /\ UNCHANGED << pending_requests, next_request_id >>
    /\ UNCHANGED << config, termination_config, lifecycle, current_slot, next_group_id,
                    conflict_groups, anchors, last_anchor_slot, next_anchor_id,
                    pending_transitions, current_state, termination_context,
                    external_flags, last_termination_reason, termination_policy_hash,
                    stats, history, pool >>

\* the rest of submit, once it holds the queue lock
SubmitAppend ==
    /\ in_flight.submit # << >>
    /\ SubmitLocked(in_flight.submit[1])
    /\ in_flight' = [in_flight EXCEPT !.submit = << >>]
    /\ UNCHANGED << config, termination_config, lifecycle, current_slot, next_group_id,
                    conflict_groups, anchors, last_anchor_slot, next_anchor_id,
                    pending_transitions, current_state, termination_context,
                    external_flags, last_termination_reason, termination_policy_hash,
                    stats, history, pool >>

\* submit_batch under the queue lock: the capacity check and the appends
SubmitBatchLocked(descs) ==
    IF Len(pending_requests) + Len(descs) > config.max_pending_requests
    THEN /\ ret' = CallOn("SubmitRequestBatch", descs, "REQUEST_QUEUE_FULL")
         /\ UNCHANGED << pending_requests, next_request_id >>
    ELSE /\ pending_requests' = pending_requests \o BatchRecords(descs, next_request_id)
         /\ next_request_id' = next_request_id + Len(descs)
         /\ ret' = CallOn("SubmitRequestBatch", descs, "OK")

\* submit_batch, run without another call in between
SubmitRequestBatch(descs) ==
    /\ IF Len(descs) = 0
       THEN /\ ret' = CallOn("SubmitRequestBatch", descs, "INVALID_PARAMETER")
            /\ UNCHANGED << pending_requests, next_request_id >>
       ELSE IF \E i \in 1..Len(descs) : SlotInPast(descs[i], current_slot)
       THEN /\ ret' = CallOn("SubmitRequestBatch", descs, "SLOT_IN_PAST")
            /\ UNCHANGED << pending_requests, next_request_id >>
       ELSE SubmitBatchLocked(descs)
    /\ UNCHANGED << config, termination_config, lifecycle, current_slot, next_group_id,
                    conflict_groups, anchors, last_anchor_slot, next_anchor_id,
                    pending_transitions, current_state, termination_context,
                    external_flags, last_termination_reason, termination_policy_hash,
                    stats, history, in_flight, pool >>

\* submit_batch up to the slot validation, which reads current_slot once before the
\* queue lock is taken
SubmitBatchCheck(descs) ==
    /\ in_flight.batch = << >>
    /\ IF Len(descs) = 0
       THEN /\ ret' = CallOn("SubmitRequestBatch", descs, "INVALID_PARAMETER")
            /\ UNCHANGED in_flight
       ELSE IF \E i \in 1..Len(descs) : SlotInPast(descs[i], current_slot)
       THEN /\ ret' = CallOn("SubmitRequestBatch", descs, "SLOT_IN_PAST")
            /\ UNCHANGED in_flight
       ELSE /\ in_flight' = [in_flight EXCEPT !.batch = << descs >>]
            /\ UNCHANGED ret
    /\ UNCHANGED << pending_requests, next_request_id >>
    /\ UNCHANGED << config, termination_config, lifecycle, current_slot, next_group_id,
                    conflict_groups, anchors, last_anchor_slot, next_anchor_id,
                    pending_transitions, current_state, termination_context,
                    external_flags, last_termination_reason, termination_policy_hash,
                    stats, history, pool >>

\* the rest of submit_batch, once it holds the queue lock
SubmitBatchAppend ==
    /\ in_flight.batch # << >>
    /\ SubmitBatchLocked(in_flight.batch[1])
    /\ in_flight' = [in_flight EXCEPT !.batch = << >>]
    /\ UNCHANGED << config, termination_config, lifecycle, current_slot, next_group_id,
                    conflict_groups, anchors, last_anchor_slot, next_anchor_id,
                    pending_transitions, current_state, termination_context,
                    external_flags, last_termination_reason, termination_policy_hash,
                    stats, history, pool >>

\* the first queue position holding a live request with this id, or 0
FindLiveRequest(queue, request_id) ==
    IF \E i \in 1..Len(queue) : queue[i].id = request_id /\ ~queue[i].cancelled
    THEN CHOOSE i \in 1..Len(queue) :
            /\ queue[i].id = request_id /\ ~queue[i].cancelled
            /\ \A j \in 1..(i - 1) : ~(queue[j].id = request_id /\ ~queue[j].cancelled)
    ELSE 0

CancelRequest(request_id) ==
    /\ LET i == FindLiveRequest(pending_requests, request_id)
       IN IF i # 0
          THEN /\ pending_requests' = [pending_requests EXCEPT ![i].cancelled = TRUE]
               /\ ret' = CallOn("CancelRequest", request_id, "OK")
          ELSE /\ ret' = CallOn("CancelRequest", request_id, "NOT_FOUND")
               /\ UNCHANGED pending_requests
    /\ UNCHANGED << config, termination_config, lifecycle, current_slot, next_request_id,
                    next_group_id, conflict_groups, anchors, last_anchor_slot,
                    next_anchor_id, pending_transitions, current_state,
                    termination_context, external_flags, last_termination_reason,
                    termination_policy_hash, stats, history, in_flight, pool >>

(***************************************************************************)
(* Conflict groups (AxisTimeAxis_CreateConflictGroup, _DestroyConflictGroup)*)
(***************************************************************************)
AXIS_MAX_CONFLICT_GROUPS == 256

CreateConflictGroup(policy) ==
    /\ IF policy = "CUSTOM"
       THEN /\ ret' = Call("CreateConflictGroup", "INVALID_POLICY")
            /\ UNCHANGED << conflict_groups, next_group_id >>
       ELSE IF Len(conflict_groups) >= AXIS_MAX_CONFLICT_GROUPS
       THEN /\ ret' = Call("CreateConflictGroup", "CONFLICT_GROUP_FULL")
            /\ UNCHANGED << conflict_groups, next_group_id >>
       ELSE /\ conflict_groups' = Append(conflict_groups,
                    [id |-> next_group_id, policy |-> policy, custom_fn |-> "null",
                     active |-> TRUE])
            /\ next_group_id' = next_group_id + 1
            /\ ret' = Call("CreateConflictGroup", "OK")
    /\ UNCHANGED << config, termination_config, lifecycle, current_slot, next_request_id,
                    pending_requests, anchors, last_anchor_slot, next_anchor_id,
                    pending_transitions, current_state, termination_context,
                    external_flags, last_termination_reason, termination_policy_hash,
                    stats, history, in_flight, pool >>

CreateConflictGroupCustom(policy_fn) ==
    /\ IF policy_fn = "null"
       THEN /\ ret' = Call("CreateConflictGroupCustom", "INVALID_PARAMETER")
            /\ UNCHANGED << conflict_groups, next_group_id >>
       ELSE IF Len(conflict_groups) >= AXIS_MAX_CONFLICT_GROUPS
       THEN /\ ret' = Call("CreateConflictGroupCustom", "CONFLICT_GROUP_FULL")
            /\ UNCHANGED << conflict_groups, next_group_id >>
       ELSE /\ conflict_groups' = Append(conflict_groups,
                    [id |-> next_group_id, policy |-> "CUSTOM", custom_fn |-> policy_fn,
                     active |-> TRUE])
            /\ next_group_id' = next_group_id + 1
            /\ ret' = Call("CreateConflictGroupCustom", "OK")
    /\ UNCHANGED << config, termination_config, lifecycle, current_slot, next_request_id,
                    pending_requests, anchors, last_anchor_slot, next_anchor_id,
                    pending_transitions, current_state, termination_context,
                    external_flags, last_termination_reason, termination_policy_hash,
                    stats, history, in_flight, pool >>

\* a variant that erases the entry instead of marking it; C28 rules it out
DestroyConflictGroupErasing(group_id) ==
    /\ IF \E i \in 1..Len(conflict_groups) : conflict_groups[i].id = group_id
       THEN /\ conflict_groups' =
                  SelectSeq(conflict_groups, LAMBDA g : g.id # group_id)
            /\ ret' = Call("DestroyConflictGroup", "OK")
       ELSE /\ ret' = Call("DestroyConflictGroup", "NOT_FOUND")
            /\ UNCHANGED conflict_groups
    /\ UNCHANGED << config, termination_config, lifecycle, current_slot, next_request_id,
                    next_group_id, pending_requests, anchors, last_anchor_slot,
                    next_anchor_id, pending_transitions, current_state,
                    termination_context, external_flags, last_termination_reason,
                    termination_policy_hash, stats, history, in_flight, pool >>

DestroyConflictGroup(group_id) ==
    /\ IF \E i \in 1..Len(conflict_groups) : conflict_groups[i].id = group_id
       THEN /\ conflict_groups' =
                  [conflict_groups EXCEPT
                     ![CHOOSE i \in 1..Len(conflict_groups) :
                         /\ conflict_groups[i].id = group_id
                         /\ \A j \in 1..(i - 1) : conflict_groups[j].id # group_id
                      ].active = FALSE]
            /\ ret' = Call("DestroyConflictGroup", "OK")
       ELSE /\ ret' = Call("DestroyConflictGroup", "NOT_FOUND")
            /\ UNCHANGED conflict_groups
    /\ UNCHANGED << config, termination_config, lifecycle, current_slot, next_request_id,
                    next_group_id, pending_requests, anchors, last_anchor_slot,
                    next_anchor_id, pending_transitions, current_state,
                    termination_context, external_flags, last_termination_reason,
                    termination_policy_hash, stats, history, in_flight, pool >>

(***************************************************************************)
(* External signals (AxisTimeAxis_SetExternalSignal, _ClearExternalSignal) *)
(***************************************************************************)
\* fetch_or(flag): flags | flag
FetchOr(flags, flag) == flags + flag - BitAnd(flags, flag)

\* fetch_and(~flag): flags & ~flag
FetchAndNot(flags, flag) == flags - BitAnd(flags, flag)

SetExternalSignal(flag) ==
    /\ external_flags' = FetchOr(external_flags, flag)
    /\ ret' = Call("SetExternalSignal", "OK")
    /\ UNCHANGED << config, termination_config, lifecycle, current_slot, next_request_id,
                    next_group_id, pending_requests, conflict_groups, anchors,
                    last_anchor_slot, next_anchor_id, pending_transitions, current_state,
                    termination_context, last_termination_reason,
                    termination_policy_hash, stats, history, in_flight, pool >>

ClearExternalSignal(flag) ==
    /\ external_flags' = FetchAndNot(external_flags, flag)
    /\ ret' = Call("ClearExternalSignal", "OK")
    /\ UNCHANGED << config, termination_config, lifecycle, current_slot, next_request_id,
                    next_group_id, pending_requests, conflict_groups, anchors,
                    last_anchor_slot, next_anchor_id, pending_transitions, current_state,
                    termination_context, last_termination_reason,
                    termination_policy_hash, stats, history, in_flight, pool >>

(***************************************************************************)
(* Policy setters (AxisTimeAxis_SetTermination..., all deprecated) and the *)
(* policy hash getter                                                      *)
(***************************************************************************)
\* a variant that stores the new step limit; C22 rules it out
SetTerminationByStepLimitApplied(max_steps) ==
    /\ termination_config' = [termination_config EXCEPT !.step_limit = max_steps]
    /\ ret' = CallOn("SetTerminationByStepLimit", max_steps, "OK")
    /\ UNCHANGED termination_policy_hash
    /\ UNCHANGED << config, lifecycle, current_slot, next_request_id, next_group_id,
                    pending_requests, conflict_groups, anchors, last_anchor_slot,
                    next_anchor_id, pending_transitions, current_state,
                    termination_context, external_flags, last_termination_reason,
                    stats, history, in_flight, pool >>

SetTerminationByStepLimit(max_steps) ==
    /\ ret' = CallOn("SetTerminationByStepLimit", max_steps, "POLICY_LOCKED")
    /\ UNCHANGED << axisVars, history, in_flight, pool >>

SetTerminationOnRequestDrain(enabled) ==
    /\ ret' = CallOn("SetTerminationOnRequestDrain", enabled, "POLICY_LOCKED")
    /\ UNCHANGED << axisVars, history, in_flight, pool >>

SetTerminationOnGroupResolution(enabled) ==
    /\ ret' = CallOn("SetTerminationOnGroupResolution", enabled, "POLICY_LOCKED")
    /\ UNCHANGED << axisVars, history, in_flight, pool >>

SetTerminationOnExternalSignal(required_flags_mask) ==
    /\ ret' = CallOn("SetTerminationOnExternalSignal", required_flags_mask,
                     "POLICY_LOCKED")
    /\ UNCHANGED << axisVars, history, in_flight, pool >>

\* a variant that rehashes the policy with the new cap and keeps the stored config;
\* C23 rules it out
SetTerminationSafetyCapRehashed(max_steps_cap) ==
    /\ termination_policy_hash' =
          GetPolicyHash([termination_config EXCEPT !.safety_cap = max_steps_cap])
    /\ ret' = CallOn("SetTerminationSafetyCap", max_steps_cap, "POLICY_LOCKED")
    /\ UNCHANGED termination_config
    /\ UNCHANGED << config, lifecycle, current_slot, next_request_id, next_group_id,
                    pending_requests, conflict_groups, anchors, last_anchor_slot,
                    next_anchor_id, pending_transitions, current_state,
                    termination_context, external_flags, last_termination_reason,
                    stats, history, in_flight, pool >>

SetTerminationSafetyCap(max_steps_cap) ==
    /\ ret' = CallOn("SetTerminationSafetyCap", max_steps_cap, "POLICY_LOCKED")
    /\ UNCHANGED << axisVars, history, in_flight, pool >>

SetCustomTerminationCallback(callback) ==
    /\ ret' = CallOn("SetCustomTerminationCallback", callback, "POLICY_LOCKED")
    /\ UNCHANGED << axisVars, history, in_flight, pool >>

\* a variant that replaces the policy and its hash; C21 rules it out
SetTerminationConfigReplaced(new_config) ==
    /\ IF new_config = {}
       THEN UNCHANGED << termination_config, termination_policy_hash >>
       ELSE \E c \in new_config :
               /\ termination_config' = c
               /\ termination_policy_hash' = GetPolicyHash(c)
    /\ ret' = CallOn("SetTerminationConfig", new_config, "POLICY_LOCKED")
    /\ UNCHANGED << config, lifecycle, current_slot, next_request_id, next_group_id,
                    pending_requests, conflict_groups, anchors, last_anchor_slot,
                    next_anchor_id, pending_transitions, current_state,
                    termination_context, external_flags, last_termination_reason,
                    stats, history, in_flight, pool >>

\* the config argument is a pointer: {} for null, or {config}
SetTerminationConfig(new_config) ==
    /\ ret' = CallOn("SetTerminationConfig", new_config, "POLICY_LOCKED")
    /\ UNCHANGED << axisVars, history, in_flight, pool >>

\* AxisTimeAxis_GetTerminationPolicyHash: what the axis reports
GetTerminationPolicyHash == termination_policy_hash

\* a second axis created with tconfig and asked for its policy hash
CreateSecondAxis(tconfig) ==
    /\ ret' = [op |-> "CreateSecondAxis", arg |-> tconfig, result |-> "OK",
               hash |-> GetPolicyHash(tconfig)]
    /\ UNCHANGED << axisVars, history, in_flight, pool >>

(***************************************************************************)
(* Anchors (AxisTimeAxis_CreateAnchorNow, _SetAnchorInterval)              *)
(***************************************************************************)
CreateAnchorNow ==
    /\ anchors' = PruneAnchors(
            Append(anchors, NewAnchor(next_anchor_id, current_slot, current_state,
                                      pending_transitions, termination_policy_hash)),
            config.max_anchors)
    /\ next_anchor_id' = next_anchor_id + 1
    /\ last_anchor_slot' = current_slot
    /\ pending_transitions' = << >>
    /\ ret' = Call("CreateAnchorNow", "OK")
    /\ UNCHANGED << config, termination_config, lifecycle, current_slot, next_request_id,
                    next_group_id, pending_requests, conflict_groups, current_state,
                    termination_context, external_flags, last_termination_reason,
                    termination_policy_hash, stats, history, in_flight, pool >>

SetAnchorInterval(interval) ==
    /\ IF interval = 0
       THEN /\ ret' = Call("SetAnchorInterval", "INVALID_PARAMETER")
            /\ UNCHANGED config
       ELSE /\ config' = [config EXCEPT !.anchor_interval = interval]
            /\ ret' = Call("SetAnchorInterval", "OK")
    /\ UNCHANGED << termination_config, lifecycle, current_slot, next_request_id,
                    next_group_id, pending_requests, conflict_groups, anchors,
                    last_anchor_slot, next_anchor_id, pending_transitions, current_state,
                    termination_context, external_flags, last_termination_reason,
                    termination_policy_hash, stats, history, in_flight, pool >>


(***************************************************************************)
(* Reconstruction and queries (AxisTimeAxis_GetOldestReconstructibleSlot,  *)
(* _GetReconstructionKey, _ReconstructState, _QueryState)                  *)
(***************************************************************************)
GetOldestReconstructibleSlot ==
    IF anchors = << >> THEN 0 ELSE anchors[1].slot_index

\* the reverse scan: the newest anchor with slot_index <= slot, or 0 for none
NearestAnchor(ring, slot) ==
    IF \E i \in 1..Len(ring) : ring[i].slot_index <= slot
    THEN CHOOSE i \in 1..Len(ring) :
            /\ ring[i].slot_index <= slot
            /\ \A j \in (i + 1)..Len(ring) : ring[j].slot_index > slot
    ELSE 0

\* the pending transitions after the anchor and up to the slot asked for
RelevantTransitions(transitions, anchor_slot, slot) ==
    SelectSeq(transitions, LAMBDA t : t.slot_index > anchor_slot /\ t.slot_index <= slot)

RECURSIVE ReplayFrom(_, _, _)
ReplayFrom(state, transitions, target_slot) ==
    IF transitions = << >> \/ transitions[1].slot_index > target_slot THEN state
    ELSE ReplayFrom(ApplyChanges(state, transitions[1].resolved_changes),
                    Tail(transitions), target_slot)

ReplayTransitionsToSlot(anchor, transitions, target_slot) ==
    ReplayFrom(anchor.state_snapshot, transitions, target_slot)

\* what a query hands back: result code, and the output when there is one
Answer(op, arg, result, returned, out) ==
    [op |-> op, arg |-> arg, result |-> result, returned |-> returned, out |-> out]

\* the state rebuilt for a slot from an anchor ring and the pending transitions,
\* once an anchor at or before the slot is found
ReplayedStateOf(ring, transitions, slot) ==
    LET a == ring[NearestAnchor(ring, slot)]
    IN ReplayTransitionsToSlot(
           a, RelevantTransitions(transitions, a.slot_index, slot), slot)

ReplayedState(slot) == ReplayedStateOf(anchors, pending_transitions, slot)

ReconstructStateAnswer(slot) ==
    IF anchors = << >>
        THEN Answer("ReconstructState", slot, "ANCHOR_NOT_FOUND", FALSE, EmptyState)
    ELSE IF slot < anchors[1].slot_index
        THEN Answer("ReconstructState", slot, "RECONSTRUCTION_FAILED", FALSE, EmptyState)
    ELSE IF NearestAnchor(anchors, slot) = 0
        THEN Answer("ReconstructState", slot, "ANCHOR_NOT_FOUND", FALSE, EmptyState)
    ELSE IF anchors[NearestAnchor(anchors, slot)].termination_policy_hash
                # termination_policy_hash
        THEN Answer("ReconstructState", slot, "POLICY_MISMATCH", FALSE, EmptyState)
    ELSE Answer("ReconstructState", slot, "OK", TRUE, ReplayedState(slot))

\* the lookup both branches of query_state end with
Lookup(op, arg, state, kh) ==
    IF kh \in DOMAIN state
    THEN Answer(op, arg, "OK", TRUE, state[kh])
    ELSE Answer(op, arg, "NOT_FOUND", FALSE, 0)

QueryStateAnswer(slot, key) ==
    LET arg == [slot |-> slot, key |-> key]
    IN IF slot = current_slot
           THEN Lookup("QueryState", arg, current_state, MakeStateKeyHash(key))
       ELSE IF anchors = << >>
           THEN Answer("QueryState", arg, "ANCHOR_NOT_FOUND", FALSE, 0)
       ELSE IF NearestAnchor(anchors, slot) = 0
           THEN Answer("QueryState", arg, "ANCHOR_NOT_FOUND", FALSE, 0)
       ELSE IF anchors[NearestAnchor(anchors, slot)].termination_policy_hash
                   # termination_policy_hash
           THEN Answer("QueryState", arg, "POLICY_MISMATCH", FALSE, 0)
       ELSE Lookup("QueryState", arg, ReplayedState(slot), MakeStateKeyHash(key))

GetReconstructionKeyAnswer(slot) ==
    IF anchors = << >>
        THEN Answer("GetReconstructionKey", slot, "ANCHOR_NOT_FOUND", FALSE, 0)
    ELSE IF slot < anchors[1].slot_index
        THEN Answer("GetReconstructionKey", slot, "SLOT_IN_PAST", FALSE, 0)
    ELSE IF slot > current_slot
        THEN Answer("GetReconstructionKey", slot, "INVALID_PARAMETER", FALSE, 0)
    ELSE IF NearestAnchor(anchors, slot) = 0
        THEN Answer("GetReconstructionKey", slot, "ANCHOR_NOT_FOUND", FALSE, 0)
    ELSE IF anchors[NearestAnchor(anchors, slot)].termination_policy_hash
                # termination_policy_hash
        THEN Answer("GetReconstructionKey", slot, "POLICY_MISMATCH", FALSE, 0)
    ELSE Answer("GetReconstructionKey", slot, "OK", TRUE,
                anchors[NearestAnchor(anchors, slot)].anchor_id)

\* the (key, value) pairs the enumeration loop builds from a reconstructed state:
\* key.primary = key_hash, key.secondary = 0
EnumeratedPairs(state) ==
    { [key |-> [primary |-> kh, secondary |-> ToWord(0)], value |-> state[kh]] :
        kh \in DOMAIN state }

\* what the enumerator may be called with: every pair, or, when it stops the loop
\* at its first call, whichever pair the unordered_map hands out first
EnumeratorCalls(answer) ==
    IF answer.result # "OK" THEN { {} }
    ELSE { EnumeratedPairs(answer.out) }
         \cup { { pair } : pair \in EnumeratedPairs(answer.out) }

ReconstructState(slot) ==
    /\ \E calls \in EnumeratorCalls(ReconstructStateAnswer(slot)) :
          ret' = [op |-> "ReconstructState", arg |-> slot,
                  result |-> ReconstructStateAnswer(slot).result,
                  returned |-> ReconstructStateAnswer(slot).returned,
                  out |-> ReconstructStateAnswer(slot).out,
                  enumerated |-> calls]
    /\ UNCHANGED << axisVars, history, in_flight, pool >>

QueryState(slot, key) ==
    /\ ret' = QueryStateAnswer(slot, key)
    /\ UNCHANGED << axisVars, history, in_flight, pool >>

GetReconstructionKey(slot) ==
    /\ ret' = GetReconstructionKeyAnswer(slot)
    /\ UNCHANGED << axisVars, history, in_flight, pool >>

(***************************************************************************)
(* Hosts.  A specification is an axis together with a host that calls its  *)
(* entry points with arguments drawn from small sets, up to the bounds.    *)
(***************************************************************************)
\* the batches a host submits over a set of descriptors: empty or one request
SmallBatchesOver(descs) == { << >> } \cup { << d >> : d \in descs }

\* one key, one group, one payload
PlainKey == [primary |-> 1, secondary |-> 0]

PlainPayload == [mutation_type |-> "SET", value |-> 1, priority |-> 0]

\* requests for this slot (rejected) and the next one
NextSlotDescs(cur) == DescsOver({cur, cur + 1}, {0}, {PlainKey}, {PlainPayload})

\* requests for this slot (rejected), the next one and the one after
PlainDescs(cur) == DescsOver({cur, cur + 1, cur + 2}, {0}, {PlainKey}, {PlainPayload})

\* requests that write either value to the plain key, for this slot or the next
ReplayDescs(cur) ==
    DescsOver({cur, cur + 1}, {0}, {PlainKey},
              { p \in Payloads : p.mutation_type = "SET" })

\* the tick is offered while slots remain, and always once the axis has terminated
SlotsLeft(max) == lifecycle = "TERMINATED" \/ current_slot < max

\* FORCE_COMMIT, which the configs below require, and USER_DEFINED_1, which none does
SignalFlags == {16, 65536}

DrainConfig == [AxisTermination_DefaultConfig EXCEPT !.terminate_on_request_drain = 1]

StepLimitConfig == [AxisTermination_DefaultConfig EXCEPT !.step_limit = 3]

\* the default config, each condition enabled alone, request drain together with a
\* later condition, a safety cap below and above the step limit, and a low safety
\* cap alone
TerminationConfigs ==
    { AxisTermination_DefaultConfig,
      StepLimitConfig,
      DrainConfig,
      [AxisTermination_DefaultConfig EXCEPT !.terminate_on_group_resolution = 1],
      [AxisTermination_DefaultConfig EXCEPT !.required_external_flags = 16],
      [AxisTermination_DefaultConfig EXCEPT !.custom_callback = "fourSteps"],
      [AxisTermination_DefaultConfig EXCEPT !.custom_callback = "thirdStep"],
      [DrainConfig EXCEPT !.required_external_flags = 16],
      [DrainConfig EXCEPT !.terminate_on_group_resolution = 1],
      [StepLimitConfig EXCEPT !.safety_cap = 2],
      [StepLimitConfig EXCEPT !.safety_cap = 5],
      [AxisTermination_DefaultConfig EXCEPT !.safety_cap = 3] }

(***************************************************************************)
(* Spec: the mutating entry points, on an axis that never terminates by    *)
(* policy or terminates on request drain (groups with a custom function    *)
(* are created under SpecCommit).                                          *)
(***************************************************************************)
Init == Create({AxisTermination_DefaultConfig, DrainConfig})

Next ==
    \/ SlotsLeft(MaxSlot) /\ Tick
    \/ /\ next_request_id <= MaxRequests
       /\ \E desc \in NextSlotDescs(current_slot) : SubmitRequest(desc)
    \/ /\ next_request_id <= MaxRequests
       /\ \E descs \in SmallBatchesOver(NextSlotDescs(current_slot)) :
             SubmitRequestBatch(descs)
    \/ \E id \in 1..MaxRequests : CancelRequest(id)
    \/ /\ next_group_id < MaxGroups
       /\ \E policy \in {"FIRST_WRITER", "CUSTOM"} : CreateConflictGroup(policy)
    \/ \E gid \in 0..MaxGroups : DestroyConflictGroup(gid)
    \/ SetExternalSignal(16)
    \/ ClearExternalSignal(16)
    \/ next_anchor_id <= MaxAnchorId /\ CreateAnchorNow
    \/ \E interval \in {0, 1} : SetAnchorInterval(interval)

Spec == Init /\ [][Next]_vars

(***************************************************************************)
(* SpecTermination: ticks, request intake and external signals under every *)
(* termination config.                                                     *)
(***************************************************************************)
InitTermination == Create(TerminationConfigs)

NextTermination ==
    \/ SlotsLeft(TermSlots) /\ Tick
    \/ /\ next_request_id <= TermRequests
       /\ \E desc \in PlainDescs(current_slot) : SubmitRequest(desc)
    \/ \E id \in 1..TermRequests : CancelRequest(id)
    \/ \E flag \in SignalFlags : SetExternalSignal(flag)
    \/ \E flag \in SignalFlags : ClearExternalSignal(flag)

SpecTermination == InitTermination /\ [][NextTermination]_vars

(***************************************************************************)
(* SpecReplay: ticks, writes, anchors and the queries, on an axis that     *)
(* never terminates by policy or terminates at its step limit.             *)
(***************************************************************************)
InitReplay == Create({AxisTermination_DefaultConfig, StepLimitConfig})

NextReplay ==
    \/ SlotsLeft(ReplaySlots) /\ Tick
    \/ /\ next_request_id <= ReplayRequests
       /\ \E desc \in ReplayDescs(current_slot) : SubmitRequest(desc)
    \/ next_anchor_id <= ReplayAnchorId /\ CreateAnchorNow
    \/ \E interval \in {0, 1} : SetAnchorInterval(interval)
    \/ \E slot \in 0..(current_slot + 1) : ReconstructState(slot)
    \/ \E slot \in 0..(current_slot + 1) : QueryState(slot, PlainKey)
    \/ \E slot \in 0..(current_slot + 1) : GetReconstructionKey(slot)

SpecReplay == InitReplay /\ [][NextReplay]_vars

(***************************************************************************)
(* SpecIntake: submit, submit_batch, cancel and tick, with requests for    *)
(* past, current and future slots, batches of up to two descriptors and a  *)
(* queue of two.                                                           *)
(***************************************************************************)
\* the batches a host submits over a set of descriptors: up to two descriptors
PairBatchesOver(descs) ==
    SmallBatchesOver(descs) \cup { << d, e >> : d \in descs, e \in descs }

\* requests for the slot before this one, this one, the next and the one after
IntakeDescs(cur) ==
    DescsOver({ t \in (cur - 1)..(cur + 2) : t >= 0 }, {0}, {PlainKey}, {PlainPayload})

InitIntake == Create({AxisTermination_DefaultConfig})

NextIntake ==
    \/ SlotsLeft(IntakeSlots) /\ Tick
    \/ /\ next_request_id <= IntakeRequests
       /\ \E desc \in IntakeDescs(current_slot) : SubmitRequest(desc)
    \/ /\ next_request_id <= IntakeRequests
       /\ \E descs \in PairBatchesOver(IntakeDescs(current_slot)) :
             SubmitRequestBatch(descs)
    \/ \E id \in 1..(IntakeRequests + 1) : CancelRequest(id)

SpecIntake == InitIntake /\ [][NextIntake]_vars

(***************************************************************************)
(* SpecResolve: ResolveConflictGroup applied to the requests of one group, *)
(* in every arrival order, under every policy.                             *)
(***************************************************************************)
\* what the requests of a bucket do: two writes tie at the highest priority
ResolvePayloads ==
    { [mutation_type |-> "SET", value |-> 1, priority |-> 0],
      [mutation_type |-> "SET", value |-> 2, priority |-> 1],
      [mutation_type |-> "SET", value |-> 3, priority |-> 1],
      [mutation_type |-> "DELETE", value |-> 0, priority |-> 1] }

\* the group configurations a worker task resolves with: the built-in policies,
\* CUSTOM without a function, and CUSTOM with each function
ResolveGroups ==
    { [id |-> 0, policy |-> p, custom_fn |-> "null", active |-> TRUE] :
        p \in BuiltinPolicies \cup {"CUSTOM"} }
    \cup { [id |-> 0, policy |-> "CUSTOM", custom_fn |-> fn, active |-> TRUE] :
             fn \in CustomFns }

\* pending requests of group 0 for slot 1, with ids up to MaxBucket
ResolveRecords ==
    { [id |-> i, desc |-> d, cancelled |-> FALSE] :
        i \in 1..MaxBucket, d \in DescsOver({1}, {0}, Keys, ResolvePayloads) }

\* the request lists of one group: up to MaxBucket requests with distinct ids,
\* in any order
Buckets ==
    UNION { { b \in [1..n -> ResolveRecords] :
                \A i, j \in 1..n : i # j => b[i].id # b[j].id } : n \in 1..MaxBucket }

\* ResolveConflictGroup called on a group and its requests
ResolveGroupCall(group, requests) ==
    /\ \E order \in KeyOrders :
          ret' = [op |-> "ResolveConflictGroup",
                  arg |-> [group |-> group, requests |-> requests],
                  result |-> ResolveConflictGroup(group, requests, order)]
    /\ UNCHANGED << axisVars, history, in_flight, pool >>

InitResolve == Create({AxisTermination_DefaultConfig})

\* the resolver reads nothing but its arguments, so one call per axis covers it
NextResolve ==
    /\ ret.op = "Create"
    /\ \E group \in ResolveGroups, requests \in Buckets : ResolveGroupCall(group, requests)

SpecResolve == InitResolve /\ [][NextResolve]_vars

(***************************************************************************)
(* SpecCommit: ticks that resolve and commit the requests of two groups    *)
(* over two keys, with group 0 created under a built-in or custom policy.  *)
(***************************************************************************)
\* requests for the next slot on either key: group 0 writes value 1 or deletes,
\* group 1 writes value 2
CommitDescs(cur) ==
    DescsOver({cur + 1}, {0}, Keys, { p \in Payloads : p.value # 2 })
    \cup DescsOver({cur + 1}, {1}, Keys, { p \in Payloads : p.value = 2 })

InitCommit == Create({AxisTermination_DefaultConfig})

NextCommit ==
    \/ SlotsLeft(CommitSlots) /\ Tick
    \/ /\ next_request_id <= CommitRequests
       /\ \E desc \in CommitDescs(current_slot) : SubmitRequest(desc)
    \/ /\ next_group_id < CommitGroups
       /\ CreateConflictGroup("LAST_WRITER")
    \/ /\ next_group_id < CommitGroups
       /\ CreateConflictGroupCustom("last")

SpecCommit == InitCommit /\ [][NextCommit]_vars

(***************************************************************************)
(* SpecPolicy: the policy setters and a second axis, beside ticks,         *)
(* submissions, signals and anchor creation, on axes that never terminate  *)
(* by policy, terminate on request drain, or carry a callback.             *)
(***************************************************************************)
\* the default config, request drain, and two configs that differ in their callback
PolicyConfigs ==
    { AxisTermination_DefaultConfig,
      DrainConfig,
      [AxisTermination_DefaultConfig EXCEPT !.custom_callback = "never"],
      [AxisTermination_DefaultConfig EXCEPT !.custom_callback = "fourSteps"] }

InitPolicy == Create(PolicyConfigs)

NextPolicy ==
    \/ SlotsLeft(PolicySlots) /\ Tick
    \/ /\ next_request_id <= PolicyRequests
       /\ \E desc \in NextSlotDescs(current_slot) : SubmitRequest(desc)
    \/ SetExternalSignal(16)
    \/ ClearExternalSignal(16)
    \/ next_anchor_id <= PolicyAnchorId /\ CreateAnchorNow
    \/ \E max_steps \in {0, 1} : SetTerminationByStepLimit(max_steps)
    \/ \E enabled \in {0, 1} : SetTerminationOnRequestDrain(enabled)
    \/ \E enabled \in {0, 1} : SetTerminationOnGroupResolution(enabled)
    \/ \E mask \in {0, 16} : SetTerminationOnExternalSignal(mask)
    \/ \E cap \in {0, 1} : SetTerminationSafetyCap(cap)
    \/ \E callback \in {"null", "fourSteps"} : SetCustomTerminationCallback(callback)
    \/ \E new_config \in {{}, {StepLimitConfig}} : SetTerminationConfig(new_config)
    \/ \E tconfig \in PolicyConfigs : CreateSecondAxis(tconfig)

SpecPolicy == InitPolicy /\ [][NextPolicy]_vars

(***************************************************************************)
(* SpecGroups: group creation up to and beyond a full table, and group     *)
(* destruction.  Only the first ids may go to a custom group.              *)
(***************************************************************************)
InitGroups == Create({AxisTermination_DefaultConfig})

NextGroups ==
    \/ \E policy \in {"FIRST_WRITER", "CUSTOM"} : CreateConflictGroup(policy)
    \/ /\ next_group_id < GroupCustoms \/ Len(conflict_groups) >= AXIS_MAX_CONFLICT_GROUPS
       /\ \E policy_fn \in {"null", "last"} : CreateConflictGroupCustom(policy_fn)
    \/ \E gid \in 0..GroupDestroys : DestroyConflictGroup(gid)

SpecGroups == InitGroups /\ [][NextGroups]_vars

(***************************************************************************)
(* SpecRace: one tick thread and one submitter thread.  The tick releases  *)
(* the queue after collecting, and the submitter validates the slot before *)
(* it takes the queue, so each call is two steps that may interleave.      *)
(***************************************************************************)
InitRace == Create({AxisTermination_DefaultConfig, DrainConfig})

\* the batches a second submitter hands in: two requests for the slots ahead
RaceBatches(cur) ==
    { << d, e >> : d, e \in DescsOver({cur + 1, cur + 2}, {0}, {PlainKey}, {PlainPayload}) }

NextRace ==
    \/ SlotsLeft(RaceSlots) /\ TickCollect
    \/ TickFinish
    \/ /\ next_request_id <= RaceRequests
       /\ \E desc \in PlainDescs(current_slot) : SubmitCheck(desc)
    \/ SubmitAppend
    \/ /\ next_request_id <= RaceRequests
       /\ \E descs \in RaceBatches(current_slot) : SubmitBatchCheck(descs)
    \/ SubmitBatchAppend
    \/ \E id \in 1..RaceRequests : CancelRequest(id)

SpecRace == InitRace /\ [][NextRace]_vars

(***************************************************************************)
(* SpecPool: step 3 of a tick seen from the pool.  The tick thread submits *)
(* one task per group and waits for all of them while the workers run.     *)
(* SpecPoolFair adds that every worker and the tick thread keep running.   *)
(***************************************************************************)
InitPool == Create({AxisTermination_DefaultConfig})

NextPool ==
    \/ Submit
    \/ WaitAll
    \/ \E w \in 1..PoolWorkers : WorkerThread(w)
    \/ SpuriousWakeup

SpecPool == InitPool /\ [][NextPool]_vars

SpecPoolFair ==
    /\ SpecPool
    /\ WF_vars(WaitAll)
    /\ \A w \in 1..PoolWorkers : WF_vars(WorkerThread(w))

(***************************************************************************)
(* SpecEval: the policy's evaluation applied to contexts a host hands it,  *)
(* for every combination of enabled conditions.                            *)
(***************************************************************************)
EvalConfigs ==
    { [step_limit |-> sl, safety_cap |-> sc,
       terminate_on_request_drain |-> rd, terminate_on_group_resolution |-> gr,
       required_external_flags |-> ef, custom_callback |-> cb] :
        sl \in {0, 3}, sc \in {0, 2, 5}, rd \in {0, 1}, gr \in {0, 1},
        ef \in {0, 16}, cb \in Callbacks }

Contexts ==
    { [elapsed_steps |-> e, pending_requests |-> p, resolved_groups |-> r,
       total_groups |-> t, external_flags |-> f] :
        e \in 0..5, p \in {0, 1}, r \in 0..2, t \in 0..2, f \in {0, 16, 65536, 65552} }

\* BuiltinTerminationPolicy::Evaluate called on a context
EvaluateContext(ctx) ==
    /\ ret' = [op |-> "Evaluate", arg |-> ctx,
               result |-> Evaluate(termination_config, ctx)]
    /\ UNCHANGED << axisVars, history, in_flight, pool >>

InitEval == Create(EvalConfigs)

\* the evaluation reads nothing but its arguments, so one call per axis covers it
NextEval == ret.op = "Create" /\ \E ctx \in Contexts : EvaluateContext(ctx)

SpecEval == InitEval /\ [][NextEval]_vars

(***************************************************************************)
(* SpecFallback: requests of two groups over two keys, where group 1 is     *)
(* never created and group 0 is unknown, created as LastWriter or          *)
(* destroyed; ticks, and the enumeration of reconstructed slots.           *)
(***************************************************************************)
\* requests for the next slot writing either value: of group 0 to either key, of
\* group 1 to the key with a secondary part
FallbackDescs(cur) ==
    DescsOver({cur + 1}, {0}, Keys, { p \in Payloads : p.mutation_type = "SET" })
    \cup DescsOver({cur + 1}, {1}, {[primary |-> 2, secondary |-> 1]},
                   { p \in Payloads : p.mutation_type = "SET" })

InitFallback ==
    Create({ AxisTermination_DefaultConfig,
             [AxisTermination_DefaultConfig EXCEPT !.terminate_on_group_resolution = 1] })

NextFallback ==
    \/ SlotsLeft(FallbackSlots) /\ Tick
    \/ /\ next_request_id <= FallbackRequests
       /\ \E desc \in FallbackDescs(current_slot) : SubmitRequest(desc)
    \/ next_group_id < FallbackGroups /\ CreateConflictGroup("LAST_WRITER")
    \/ \E gid \in 0..(FallbackGroups - 1) : DestroyConflictGroup(gid)
    \/ \E slot \in 0..current_slot : ReconstructState(slot)

SpecFallback == InitFallback /\ [][NextFallback]_vars

(***************************************************************************)
(* Properties                                                              *)
(***************************************************************************)
TickOk == Call("Tick", "OK")

TickTerminated == Call("Tick", "TERMINATED")

\* C1: every tick that returns OK increases current_slot by exactly 1, and a step
\* of any other operation, or of a tick that fails, leaves current_slot as it was.
C1_SlotAdvance ==
    [][IF ret' = TickOk
       THEN current_slot' = current_slot + 1
       ELSE current_slot' = current_slot]_vars

\* two ticks returned OK with a group created, a signal set and an extra anchor
\* taken in between
C1_Witness ==
    /\ ret = TickOk
    /\ current_slot = 2
    /\ conflict_groups # << >>
    /\ external_flags # 0
    /\ next_anchor_id > 2

\* C2: after N successful ticks from creation elapsed_steps equals N (one
\* increment per completed tick); N is current_slot, which C1 ties to the ticks.
C2_ElapsedSteps == termination_context.elapsed_steps = current_slot

\* C3: once an evaluation of the termination policy made by a tick (either of
\* the two the tick makes) yields a reason other than None, the axis is
\* Terminated after that tick; a Terminated axis stays Terminated under every
\* operation, and every tick on it returns Terminated.
C3_Irreversible ==
    [][/\ (ret' = TickOk =>
              \A ctx \in {FirstTerminationBlock(termination_context,
                                                Len(pending_requests'),
                                                termination_context'.total_groups,
                                                external_flags),
                          termination_context'} :
                  Evaluate(termination_config, ctx) # "NONE"
                      => lifecycle' = "TERMINATED")
       /\ (lifecycle = "TERMINATED" => lifecycle' = "TERMINATED")
       /\ (lifecycle = "TERMINATED" /\ ret'.op = "Tick" => ret' = TickTerminated)
       /\ (ret' = TickTerminated => lifecycle = "TERMINATED")]_vars

\* C4: a tick on a Terminated axis returns Terminated and leaves every field of
\* the axis as it was, while reconstruct_state on a retained slot still returns OK
\* with a state and query_state at the current slot still returns the stored value.
C4_TerminatedTick ==
    [][/\ (lifecycle = "TERMINATED" /\ ret'.op = "Tick"
              => ret' = TickTerminated /\ UNCHANGED axisVars)
       /\ ((/\ lifecycle = "TERMINATED"
            /\ ret'.op = "ReconstructState"
            /\ ret'.arg \in GetOldestReconstructibleSlot..current_slot)
              => ret'.result = "OK" /\ ret'.returned)
       /\ ((/\ lifecycle = "TERMINATED"
            /\ ret'.op = "QueryState"
            /\ ret'.arg.slot = current_slot
            /\ MakeStateKeyHash(ret'.arg.key) \in DOMAIN current_state)
              => /\ ret'.result = "OK"
                 /\ ret'.out = current_state[MakeStateKeyHash(ret'.arg.key)])]_vars

\* a terminated axis holding a written key and a queued request refused a tick
C4_Witness ==
    /\ ret = TickTerminated
    /\ current_state # EmptyState
    /\ pending_requests # << >>
    /\ Len(anchors) = 2

\* the order of the conditions, and what the termination policy asks of each
ConditionOrder ==
    << "SAFETY_CAP", "STEP_LIMIT", "REQUEST_DRAIN", "GROUP_RESOLUTION",
       "EXTERNAL_SIGNAL", "CUSTOM_CALLBACK" >>

\* some bit is set in both words
FlagsOverlap(a, b) ==
    \E bit \in 0..30 : (a \div (2 ^ bit)) % 2 = 1 /\ (b \div (2 ^ bit)) % 2 = 1

ConditionSatisfied(i, c, x) ==
    CASE i = 1 -> c.safety_cap > 0 /\ x.elapsed_steps >= c.safety_cap
      [] i = 2 -> c.step_limit > 0 /\ x.elapsed_steps >= c.step_limit
      [] i = 3 -> c.terminate_on_request_drain # 0 /\ x.pending_requests = 0
      [] i = 4 -> /\ c.terminate_on_group_resolution # 0
                  /\ x.total_groups > 0
                  /\ x.resolved_groups >= x.total_groups
      [] i = 5 -> /\ c.required_external_flags # 0
                  /\ FlagsOverlap(x.external_flags, c.required_external_flags)
      [] i = 6 -> /\ c.custom_callback # "null"
                  /\ CustomCallbackResult(c.custom_callback, x) # 0

NoEarlierCondition(i, c, x) == \A j \in 1..(i - 1) : ~ConditionSatisfied(j, c, x)

\* C5: for every config and context the evaluation returns the first satisfied
\* condition in the order SafetyCap, StepLimit, RequestDrain, GroupResolution,
\* ExternalSignal, CustomCallback; it returns None exactly when none is satisfied;
\* and a reached safety cap is the reason whatever else holds.
C5_EvaluationOrder ==
    ret.op = "Evaluate" =>
        LET c == termination_config
            x == ret.arg
        IN /\ \A i \in 1..6 :
                ConditionSatisfied(i, c, x) /\ NoEarlierCondition(i, c, x)
                    => ret.result = ConditionOrder[i]
           /\ (ret.result = "NONE" <=> \A i \in 1..6 : ~ConditionSatisfied(i, c, x))
           /\ (c.safety_cap > 0 /\ x.elapsed_steps >= c.safety_cap
                  => ret.result = "SAFETY_CAP")

\* the safety cap won over a step limit, a drained queue, resolved groups, a
\* raised signal and a firing callback
C5_Witness ==
    /\ ret.op = "Evaluate"
    /\ ret.result = "SAFETY_CAP"
    /\ \A i \in 1..6 : ConditionSatisfied(i, termination_config, ret.arg)

\* C6: with step_limit = L > 0, safety_cap > L and every other condition
\* disabled, the reason is None after each of the first L-1 ticks and StepLimit
\* after the L-th, which leaves the axis Terminated after exactly L ticks.
C6_StepLimit ==
    LET c == termination_config
    IN (/\ c.step_limit > 0
        /\ c.safety_cap > c.step_limit
        /\ c.terminate_on_request_drain = 0
        /\ c.terminate_on_group_resolution = 0
        /\ c.required_external_flags = 0
        /\ c.custom_callback = "null")
          => /\ current_slot <= c.step_limit
             /\ (current_slot < c.step_limit
                    => last_termination_reason = "NONE" /\ lifecycle = "ACTIVE")
             /\ (current_slot = c.step_limit
                    => last_termination_reason = "STEP_LIMIT" /\ lifecycle = "TERMINATED")

\* the tick returned OK under request drain with neither cap nor limit reached
DrainDecides ==
    /\ ret' = TickOk
    /\ termination_config.terminate_on_request_drain # 0
    /\ ~ConditionSatisfied(1, termination_config, termination_context')
    /\ ~ConditionSatisfied(2, termination_config, termination_context')

\* C7 as stated: under request drain with neither cap nor limit reached a tick
\* yields None whenever a request remains after its removals, and RequestDrain
\* with a Terminated axis when none remains.
C7_RequestDrainAsStated ==
    [][DrainDecides =>
          IF pending_requests' # << >>
          THEN last_termination_reason' = "NONE" /\ lifecycle' = "ACTIVE"
          ELSE last_termination_reason' = "REQUEST_DRAIN" /\ lifecycle' = "TERMINATED"
      ]_vars

\* C7: under request drain with neither cap nor limit reached a tick yields
\* RequestDrain with a Terminated axis when no request remains after its removals;
\* when one remains it never yields RequestDrain, and yields None exactly when no
\* later condition (group resolution, external signal, callback) is satisfied.
C7_RequestDrain ==
    [][DrainDecides =>
          IF pending_requests' # << >>
          THEN /\ last_termination_reason' # "REQUEST_DRAIN"
               /\ (last_termination_reason' = "NONE" /\ lifecycle' = "ACTIVE")
                  <=> \A i \in 4..6 :
                        ~ConditionSatisfied(i, termination_config, termination_context')
          ELSE last_termination_reason' = "REQUEST_DRAIN" /\ lifecycle' = "TERMINATED"
      ]_vars

\* a second tick drained the queue of a drain-only axis whose first tick left a
\* request behind
C7_Witness ==
    /\ ret = TickOk
    /\ termination_config = DrainConfig
    /\ last_termination_reason = "REQUEST_DRAIN"
    /\ lifecycle = "TERMINATED"
    /\ current_slot = 2
    /\ stats.total_requests_processed = 2

\* C8: the policy hash never changes, and with required_external_flags = F # 0
\* and no earlier condition satisfied a tick yields ExternalSignal exactly when
\* external_flags and F overlap at the evaluation; without overlap and without a
\* callback it yields None.
C8_ExternalSignal ==
    [][/\ termination_policy_hash' = termination_policy_hash
       /\ (/\ ret' = TickOk
           /\ termination_config.required_external_flags # 0
           /\ NoEarlierCondition(5, termination_config, termination_context'))
             => LET overlap == FlagsOverlap(external_flags,
                                            termination_config.required_external_flags)
                IN /\ last_termination_reason' = "EXTERNAL_SIGNAL" <=> overlap
                   /\ overlap => lifecycle' = "TERMINATED"
                   /\ (~overlap /\ termination_config.custom_callback = "null")
                         => last_termination_reason' = "NONE" /\ lifecycle' = "ACTIVE"
      ]_vars

\* the first tick yielded None, both flags were then set, and the second tick
\* yielded ExternalSignal
C8_Witness ==
    /\ ret = TickOk
    /\ last_termination_reason = "EXTERNAL_SIGNAL"
    /\ current_slot = 2
    /\ external_flags = 65552
    /\ termination_policy_hash = GetPolicyHash(termination_config)

\* C9: for every slot s from the oldest anchor's slot to current_slot,
\* reconstruct_state at s returns the working state as it was when s was committed,
\* and query_state at s returns that state's value for the key.
C9_ReconstructionFidelity ==
    /\ (ret.op = "ReconstructState"
        /\ ret.arg \in GetOldestReconstructibleSlot..current_slot)
          => /\ ret.result = "OK"
             /\ ret.returned
             /\ ret.out = history[ret.arg + 1]
    /\ (ret.op = "QueryState"
        /\ ret.arg.slot \in GetOldestReconstructibleSlot..current_slot)
          => LET then == history[ret.arg.slot + 1]
                 kh == MakeStateKeyHash(ret.arg.key)
             IN IF kh \in DOMAIN then
                THEN ret.result = "OK" /\ ret.returned /\ ret.out = then[kh]
                ELSE ret.result = "NOT_FOUND" /\ ~ret.returned

\* C10: reconstruct_state and query_state answer SlotInPast for a slot below the
\* oldest retained anchor and InvalidParameter for a slot above current_slot, and
\* hand back no state in either case.
C10_Rejection ==
    ret.op \in {"ReconstructState", "QueryState"} =>
        LET slot == IF ret.op = "QueryState" THEN ret.arg.slot ELSE ret.arg
        IN /\ slot < GetOldestReconstructibleSlot
                => ret.result = "SLOT_IN_PAST" /\ ~ret.returned
           /\ slot > current_slot
                => ret.result = "INVALID_PARAMETER" /\ ~ret.returned

\* C11: submit(desc) with desc.target_slot <= current_slot returns SlotInPast,
\* assigns no request id and leaves the pending queue as it was.
C11_SubmitSlotInPast ==
    [][ret'.op = "SubmitRequest" /\ ret'.arg.target_slot <= current_slot
          => /\ ret'.result = "SLOT_IN_PAST"
             /\ next_request_id' = next_request_id
             /\ pending_requests' = pending_requests]_vars

\* a submit for a slot already committed, refused while the queue holds a request
C11_Witness ==
    /\ ret.op = "SubmitRequest"
    /\ ret.result = "SLOT_IN_PAST"
    /\ ret.arg.target_slot < current_slot
    /\ pending_requests # << >>

\* C12: submit_batch is all-or-nothing. It fails exactly when the batch is empty,
\* some descriptor has target_slot <= current_slot, or queue size + count exceeds
\* max_pending_requests; a failed batch leaves the queue and the id counter as
\* they were, and after OK the queue is the old queue followed by all count
\* descriptors, in order, with consecutive fresh ids.
C12_BatchAllOrNothing ==
    [][ret'.op = "SubmitRequestBatch" =>
         LET descs == ret'.arg
             count == Len(descs)
             rejected ==
                \/ count = 0
                \/ \E i \in 1..count : descs[i].target_slot <= current_slot
                \/ Len(pending_requests) + count > config.max_pending_requests
         IN /\ ret'.result # "OK" <=> rejected
            /\ ret'.result # "OK"
                  => /\ pending_requests' = pending_requests
                     /\ next_request_id' = next_request_id
            /\ ret'.result = "OK"
                  => /\ Len(pending_requests') = Len(pending_requests) + count
                     /\ SubSeq(pending_requests', 1, Len(pending_requests))
                           = pending_requests
                     /\ \A i \in 1..count :
                           pending_requests'[Len(pending_requests) + i]
                             = [id |-> next_request_id + i - 1, desc |-> descs[i],
                                cancelled |-> FALSE]]_vars

\* a batch of two refused for one past descriptor while a request is queued
C12_Witness ==
    /\ ret.op = "SubmitRequestBatch"
    /\ ret.result = "SLOT_IN_PAST"
    /\ Len(ret.arg) = 2
    /\ ret.arg[1].target_slot > current_slot
    /\ ret.arg[2].target_slot <= current_slot
    /\ Len(pending_requests) = 1

\* the ids of the requests a sequence of records holds
IdsOf(records) == { records[i].id : i \in 1..Len(records) }

\* the ids of every request recorded in a pending transition or an anchor's log
RecordedIds(transitions, ring) ==
    UNION ({ IdsOf(transitions[i].requests) : i \in 1..Len(transitions) }
           \cup { IdsOf(ring[i].transition_log) : i \in 1..Len(ring) })

OnKey(requests, key) ==
    { requests[i] : i \in { j \in 1..Len(requests) : requests[j].desc.key = key } }

\* the changes a resolution result holds for a key
KeyOutcome(result, key) == SelectSeq(result.resolved_changes, LAMBDA c : c.key = key)

\* what a winning request contributes: its (key, value), or nothing for a Delete
OutcomeOf(winner) ==
    IF winner.desc.mutation_type = "DELETE" THEN << >>
    ELSE << [key |-> winner.desc.key, value |-> winner.desc.value] >>

\* the request of a set with the lowest RequestId
LowestId(requests) == CHOOSE w \in requests : \A r \in requests : w.id <= r.id

\* the request of a set with the highest RequestId
HighestId(requests) == CHOOSE w \in requests : \A r \in requests : w.id >= r.id

\* the set as a bucket sorted ascending by RequestId
Ascending(requests) ==
    [i \in 1..Cardinality(requests) |->
        CHOOSE w \in requests : Cardinality({ r \in requests : r.id < w.id }) = i - 1]

\* the last call resolved a group of the given policy
Resolved(policy) == ret.op = "ResolveConflictGroup" /\ ret.arg.group.policy = policy

\* C15: under FirstWriter, for every key the requests of the group address, the
\* result holds what the request with the lowest RequestId on that key
\* contributes, in whatever order the requests arrive.
C15_FirstWriter ==
    Resolved("FIRST_WRITER") =>
        \A key \in Keys :
            LET on == OnKey(ret.arg.requests, key)
            IN IF on = {} THEN KeyOutcome(ret.result, key) = << >>
               ELSE KeyOutcome(ret.result, key) = OutcomeOf(LowestId(on))

\* three requests on one key arriving with the lowest id last; its value wins
C15_Witness ==
    /\ Resolved("FIRST_WRITER")
    /\ Len(ret.arg.requests) = 3
    /\ \A i \in 1..3 : ret.arg.requests[i].desc.key = PlainKey
    /\ ret.arg.requests[3].id = 1
    /\ ret.arg.requests[3].desc.value = 3
    /\ ret.arg.requests[1].desc.value = 1
    /\ ret.result.resolved_changes = << [key |-> PlainKey, value |-> 3] >>

\* C16: under Priority, for every key the winner is a request of the highest
\* priority on that key, and among those the one with the lowest RequestId.
C16_Priority ==
    Resolved("PRIORITY") =>
        \A key \in Keys :
            LET on == OnKey(ret.arg.requests, key)
                top == { w \in on : \A r \in on : w.desc.priority >= r.desc.priority }
            IN IF on = {} THEN KeyOutcome(ret.result, key) = << >>
               ELSE KeyOutcome(ret.result, key) = OutcomeOf(LowestId(top))

\* ids 1 (priority 0), 3 and 2 (both priority 1) on one key: request 2 wins
C16_Witness ==
    /\ Resolved("PRIORITY")
    /\ Len(ret.arg.requests) = 3
    /\ \A i \in 1..3 : ret.arg.requests[i].desc.key = PlainKey
    /\ ret.arg.requests[1].id = 1 /\ ret.arg.requests[1].desc.priority = 0
    /\ ret.arg.requests[2].id = 3 /\ ret.arg.requests[2].desc.value = 3
    /\ ret.arg.requests[3].id = 2 /\ ret.arg.requests[3].desc.value = 2
    /\ ret.result.resolved_changes = << [key |-> PlainKey, value |-> 2] >>

\* C17: under LastWriter, for every key the result holds what the request with
\* the highest RequestId on that key contributes.
C17_LastWriter ==
    Resolved("LAST_WRITER") =>
        \A key \in Keys :
            LET on == OnKey(ret.arg.requests, key)
            IN IF on = {} THEN KeyOutcome(ret.result, key) = << >>
               ELSE KeyOutcome(ret.result, key) = OutcomeOf(HighestId(on))

\* three requests on one key arriving with the highest id first; its value wins
C17_Witness ==
    /\ Resolved("LAST_WRITER")
    /\ Len(ret.arg.requests) = 3
    /\ \A i \in 1..3 : ret.arg.requests[i].desc.key = PlainKey
    /\ ret.arg.requests[1].id = 3
    /\ ret.arg.requests[1].desc.value = 1
    /\ ret.arg.requests[3].desc.value = 3
    /\ ret.result.resolved_changes = << [key |-> PlainKey, value |-> 1] >>

\* C18: under a Custom policy with a function, for every key the function is
\* handed the bucket sorted ascending by RequestId; if it reports an error or
\* leaves an index outside the bucket the winner is the request with the lowest
\* RequestId on that key, otherwise the request at the returned index of the
\* sorted bucket.
C18_Custom ==
    Resolved("CUSTOM") /\ ret.arg.group.custom_fn # "null" =>
        \A key \in Keys :
            LET on == OnKey(ret.arg.requests, key)
                bucket == Ascending(on)
                call == CustomFnCall(ret.arg.group.custom_fn, ret.arg.group.id,
                                     [i \in 1..Len(bucket) |-> bucket[i].desc])
            IN IF on = {} THEN KeyOutcome(ret.result, key) = << >>
               ELSE IF call.result # 0 \/ call.winner_index >= Len(bucket)
                    THEN KeyOutcome(ret.result, key) = OutcomeOf(LowestId(on))
                    ELSE KeyOutcome(ret.result, key)
                           = OutcomeOf(bucket[call.winner_index + 1])

\* a function that fails after writing the last index, on two requests arriving
\* with the higher id first: the lower id's value wins
C18_Witness ==
    /\ Resolved("CUSTOM")
    /\ ret.arg.group.custom_fn = "failing"
    /\ Len(ret.arg.requests) = 2
    /\ \A i \in 1..2 : ret.arg.requests[i].desc.key = PlainKey
    /\ ret.arg.requests[1].id = 2 /\ ret.arg.requests[1].desc.value = 2
    /\ ret.arg.requests[2].id = 1 /\ ret.arg.requests[2].desc.value = 1
    /\ ret.result.resolved_changes = << [key |-> PlainKey, value |-> 1] >>

\* the requests the tick of this step collected
TickRequests == CollectSlotRequests(pending_requests, current_slot')

\* what one group's task resolves to in the tick of this step (the changes for a
\* key do not depend on the order in which the keys are visited)
GroupResult(gid) ==
    ResolveConflictGroup(FindGroup(conflict_groups, gid),
                         RequestsOfGroup(TickRequests, gid),
                         CHOOSE o \in KeyOrders : TRUE)

\* C13: in a tick, whatever order the worker tasks complete in, the changes
\* committed and recorded are the same, the working state after the tick is the
\* old one with those changes applied, and for every key written by several
\* groups in the slot the value of the highest group_id among them remains.
C13_CommitOrder ==
    [][ret' = TickOk =>
         LET groups == GroupIdsOf(TickRequests)
             Changes(order, completion) ==
                ResolvedChanges(TickRequests, conflict_groups, order, completion)
         IN /\ \A order \in [groups -> KeyOrders] :
                  \A c1, c2 \in CompletionOrders(groups) :
                     Changes(order, c1) = Changes(order, c2)
            /\ \E order \in [groups -> KeyOrders] :
                  \A c \in CompletionOrders(groups) :
                     /\ current_state' = ApplyChanges(current_state, Changes(order, c))
                     /\ pending_transitions' # << >> =>
                           pending_transitions'[Len(pending_transitions')].resolved_changes
                              = Changes(order, c)
            /\ \A key \in Keys :
                  LET writers == { g \in groups : KeyOutcome(GroupResult(g), key) # << >> }
                      highest == CHOOSE g \in writers : \A h \in writers : g >= h
                  IN writers # {} =>
                        /\ KeyHashOf[key] \in DOMAIN current_state'
                        /\ current_state'[KeyHashOf[key]]
                              = KeyOutcome(GroupResult(highest), key)[1].value]_vars

\* a tick that committed two writes of one key, value 2 from group 1 submitted
\* first and value 1 from group 0: the value of group 1 remains
C13_Witness ==
    /\ ret = TickOk
    /\ Len(pending_transitions) = 1
    /\ Len(pending_transitions[1].requests) = 2
    /\ pending_transitions[1].requests[1].desc.conflict_group = 1
    /\ pending_transitions[1].requests[1].desc.value = 2
    /\ pending_transitions[1].requests[2].desc.conflict_group = 0
    /\ pending_transitions[1].requests[2].desc.value = 1
    /\ \A i \in 1..2 : pending_transitions[1].requests[i].desc.key = PlainKey
    /\ current_state[KeyHashOf[PlainKey]] = 2

\* C14: what an axis holds after a call is determined by what it held before and
\* the call alone. The policy hash is the hash of the config at creation and no
\* call changes it; and in
\* a tick, whatever order the worker tasks complete in and each group visits its
\* keys in, the working state and the state reconstructed for every slot from
\* the oldest anchor's to the current one are the same. Two axes created alike
\* and given the same calls therefore agree on all three after every tick.
C14_Determinism ==
    [][/\ termination_policy_hash' = termination_policy_hash
       /\ ret.op = "Create" => termination_policy_hash = GetPolicyHash(termination_config)
       /\ ret' = TickOk =>
            LET groups == GroupIdsOf(TickRequests)
            IN \A order \in [groups -> KeyOrders], c \in CompletionOrders(groups) :
                 LET changes == ResolvedChanges(TickRequests, conflict_groups, order, c)
                     transitions ==
                        Append(pending_transitions,
                               [slot_index |-> current_slot', requests |-> TickRequests,
                                resolved_changes |-> changes])
                     due == AnchorDue(current_slot', last_anchor_slot,
                                      config.anchor_interval)
                 IN /\ current_state' = ApplyChanges(current_state, changes)
                    /\ anchors' =
                          IF due
                          THEN PruneAnchors(
                                  Append(anchors,
                                         NewAnchor(next_anchor_id, current_slot',
                                                   current_state', transitions,
                                                   termination_policy_hash)),
                                  config.max_anchors)
                          ELSE anchors
                    /\ \A slot \in anchors'[1].slot_index..current_slot' :
                          ReplayedStateOf(anchors', IF due THEN << >> ELSE transitions,
                                          slot)
                             = ReplayedStateOf(anchors', pending_transitions', slot)]_vars

\* a tick that resolved two groups, each writing another key, and created the
\* anchor of slot 2
C14_Witness ==
    /\ ret = TickOk
    /\ current_slot = 2
    /\ Len(anchors) = 2
    /\ anchors[2].slot_index = 2
    /\ Len(anchors[2].transition_log) = 2
    /\ anchors[2].transition_log[1].desc.target_slot = 2
    /\ anchors[2].transition_log[1].desc.conflict_group = 1
    /\ anchors[2].transition_log[2].desc.conflict_group = 0
    /\ Cardinality(DOMAIN current_state) = 2

\* C19: when, for a key addressed in a slot, the winning request of every group
\* addressing it is a Delete, those groups contribute no change for the key and
\* the key is absent from the working state after the tick.
C19_Delete ==
    [][ret' = TickOk =>
         \A key \in Keys :
            LET addressing == { g \in GroupIdsOf(TickRequests) :
                                  OnKey(RequestsOfGroup(TickRequests, g), key) # {} }
            IN (/\ addressing # {}
                /\ \A g \in addressing : KeyOutcome(GroupResult(g), key) = << >>)
                  => KeyHashOf[key] \notin DOMAIN current_state']_vars


(***************************************************************************)
(* The policy hash                                                         *)
(***************************************************************************)
PolicySetters ==
    { "SetTerminationByStepLimit", "SetTerminationOnRequestDrain",
      "SetTerminationOnGroupResolution", "SetTerminationOnExternalSignal",
      "SetTerminationSafetyCap", "SetCustomTerminationCallback",
      "SetTerminationConfig" }

\* C21: the policy hash the axis reports is the same before and after every call,
\* so it is the value of creation in every reachable state.
C21_HashImmutable ==
    [][GetTerminationPolicyHash' = GetTerminationPolicyHash]_vars

\* C21 witness: the axis has ticked to termination after a setter attempt, a signal
\* change and a manual anchor.
C21_Witness ==
    /\ lifecycle = "TERMINATED"
    /\ ret.op \in PolicySetters
    /\ external_flags # 0
    /\ current_slot > 0
    /\ \E i \in 1..Len(anchors) : anchors[i].anchor_id > 1

\* C22: every policy setter returns PolicyLocked whatever its argument, and leaves
\* the stored termination config and the policy hash as they were.
C22_PolicyLocked ==
    [][ret'.op \in PolicySetters =>
          /\ ret'.result = "POLICY_LOCKED"
          /\ termination_config' = termination_config
          /\ termination_policy_hash' = termination_policy_hash]_vars

\* C22 witness: a setter was called with an argument that differs from the stored
\* config.
C22_Witness ==
    /\ ret.op = "SetTerminationByStepLimit"
    /\ ret.arg # termination_config.step_limit
    /\ ret.result = "POLICY_LOCKED"

C24_HashUniqueness ==
    ret.op = "CreateSecondAxis" /\ ret.arg # termination_config
        => ret.hash # GetTerminationPolicyHash


(***************************************************************************)
(* The anchor ring                                                         *)
(***************************************************************************)
\* C25: every anchor in the ring carries the policy hash of the axis, and no
\* reconstruction or query is answered with PolicyMismatch.
C25_AnchorPolicyHash ==
    /\ \A i \in 1..Len(anchors) :
          anchors[i].termination_policy_hash = GetTerminationPolicyHash
    /\ ret.result # "POLICY_MISMATCH"

\* C25 witness: a reconstruction succeeds on a ring that holds only anchors created
\* after the genesis anchor, the newer one by a tick.
C25_Witness ==
    /\ ret.op = "ReconstructState"
    /\ ret.result = "OK"
    /\ Len(anchors) = 2
    /\ anchors[1].anchor_id > 1
    /\ last_anchor_slot = current_slot
    /\ anchors[2].transition_log # << >>

\* the last n elements of a sequence (all of it when it is shorter)
LastOf(seq, n) ==
    SubSeq(seq, (IF Len(seq) > n THEN Len(seq) - n ELSE 0) + 1, Len(seq))

\* C26: after a tick or create_anchor_now the ring holds between 1 and max_anchors
\* anchors, and a step that inserts an anchor leaves the newest max_anchors of the
\* old ring with the new anchor appended, so what it drops is the oldest.
C26_AnchorRing ==
    [][/\ ret'.op \in {"Tick", "CreateAnchorNow"} =>
             Len(anchors') >= 1 /\ Len(anchors') <= config'.max_anchors
       /\ next_anchor_id' # next_anchor_id =>
             /\ anchors'[Len(anchors')].anchor_id = next_anchor_id
             /\ \A i \in 1..Len(anchors) : anchors[i].anchor_id < next_anchor_id
             /\ anchors' = LastOf(Append(anchors, anchors'[Len(anchors')]),
                                  config.max_anchors)]_vars

\* C26 witness: a tick has just inserted the third anchor into a ring of two, and
\* the genesis anchor is the one that went.
C26_Witness ==
    /\ ret = TickOk
    /\ last_anchor_slot = current_slot
    /\ Len(anchors) = config.max_anchors
    /\ anchors[1].anchor_id = 2
    /\ anchors[2].anchor_id = 3

\* C27: right after creation, whatever the termination config, the axis is at
\* slot 0 with no termination reason, the oldest reconstructible slot is 0, and
\* the ring holds exactly the genesis anchor at slot 0 with an empty snapshot.
C27_AfterCreation ==
    ret.op = "Create" =>
        /\ current_slot = 0
        /\ last_termination_reason = "NONE"
        /\ GetOldestReconstructibleSlot = 0
        /\ Len(anchors) = 1
        /\ anchors[1].slot_index = 0
        /\ anchors[1].state_snapshot = EmptyState

\* C27 witness: an axis created with a config that has a condition enabled.
C27_Witness ==
    /\ ret.op = "Create"
    /\ termination_config # AxisTermination_DefaultConfig


(***************************************************************************)
(* Conflict groups                                                         *)
(***************************************************************************)
GroupCreations == {"CreateConflictGroup", "CreateConflictGroupCustom"}

\* C28: a successful group creation hands out an id above every id handed out
\* before and appends one entry; destroy_conflict_group keeps every entry and id
\* and hands no id back; and a creation with valid arguments on a table of
\* AXIS_MAX_CONFLICT_GROUPS entries fails with ConflictGroupFull.
C28_GroupIds ==
    [][/\ ret'.op \in GroupCreations /\ ret'.result = "OK" =>
             /\ Len(conflict_groups) < AXIS_MAX_CONFLICT_GROUPS
             /\ conflict_groups' =
                   Append(conflict_groups, conflict_groups'[Len(conflict_groups')])
             /\ conflict_groups'[Len(conflict_groups')].id = next_group_id
             /\ \A i \in 1..Len(conflict_groups) :
                   conflict_groups[i].id < next_group_id
             /\ next_group_id' > next_group_id
       /\ ret'.op = "DestroyConflictGroup" =>
             /\ Len(conflict_groups') = Len(conflict_groups)
             /\ \A i \in 1..Len(conflict_groups) :
                   conflict_groups'[i].id = conflict_groups[i].id
             /\ next_group_id' = next_group_id
       /\ /\ ret'.op \in GroupCreations
          /\ Len(conflict_groups) >= AXIS_MAX_CONFLICT_GROUPS
          /\ ret'.result \notin {"INVALID_POLICY", "INVALID_PARAMETER"}
          => ret'.result = "CONFLICT_GROUP_FULL" /\ conflict_groups' = conflict_groups
      ]_vars

\* C28 witness: a creation fails on a table of 256 entries whose first group was
\* destroyed and whose last entry has the id 255.
C28_Witness ==
    /\ ret = Call("CreateConflictGroup", "CONFLICT_GROUP_FULL")
    /\ Len(conflict_groups) = AXIS_MAX_CONFLICT_GROUPS
    /\ ~conflict_groups[1].active
    /\ conflict_groups[Len(conflict_groups)].id = AXIS_MAX_CONFLICT_GROUPS - 1


\* the group id belongs to a destroyed group
Destroyed(gid) ==
    \E i \in 1..Len(conflict_groups) :
        conflict_groups[i].id = gid /\ ~conflict_groups[i].active

\* C29: a tick commits what the collected requests of groups that were not
\* destroyed resolve to, and records no request of a destroyed group in its
\* transition: the pending requests of a destroyed group are discarded.
C29_DestroyDiscards ==
    [][ret' = TickOk =>
          LET kept == SelectSeq(TickRequests,
                                LAMBDA r : ~Destroyed(r.desc.conflict_group))
          IN /\ \A order \in [GroupIdsOf(kept) -> KeyOrders],
                   completion \in CompletionOrders(GroupIdsOf(kept)) :
                    current_state' =
                        ApplyChanges(current_state,
                                     ResolvedChanges(kept, conflict_groups, order,
                                                     completion))
             /\ pending_transitions' # << >> =>
                    \A i \in 1..Len(pending_transitions'[Len(pending_transitions')].requests) :
                        ~Destroyed(pending_transitions'[Len(pending_transitions')]
                                       .requests[i].desc.conflict_group)]_vars


(***************************************************************************)
(* Submissions concurrent with a tick                                      *)
(***************************************************************************)
\* C30: every record in the pending queue that is not cancelled has a target slot
\* after the current slot, also when a submit interleaves with a tick.
C30_NoRequestLeftBehind ==
    \A i \in 1..Len(pending_requests) :
        ~pending_requests[i].cancelled
            => pending_requests[i].desc.target_slot > current_slot


\* C35: with submit, submit_batch, cancel and the tick interleaved, the pending
\* queue, tombstones included, never holds more than max_pending_requests records;
\* a submit that reaches a full queue returns REQUEST_QUEUE_FULL and leaves the
\* queue as it was, and so does a batch that would not fit.
C35_QueueBound ==
    [][/\ Len(pending_requests) <= config.max_pending_requests
       /\ Len(pending_requests') <= config.max_pending_requests
       /\ /\ in_flight.submit # << >>
          /\ in_flight'.submit = << >>
          /\ Len(pending_requests) >= config.max_pending_requests
          => /\ ret' = CallOn("SubmitRequest", in_flight.submit[1], "REQUEST_QUEUE_FULL")
             /\ pending_requests' = pending_requests
       /\ /\ in_flight.batch # << >>
          /\ in_flight'.batch = << >>
          /\ Len(pending_requests) + Len(in_flight.batch[1])
                > config.max_pending_requests
          => /\ ret' = CallOn("SubmitRequestBatch", in_flight.batch[1],
                              "REQUEST_QUEUE_FULL")
             /\ pending_requests' = pending_requests]_vars

\* C35 witness: a submit was refused by a queue filled to its capacity with a
\* tombstone and a live record, while a tick and a batch were in progress.
C35_Witness ==
    /\ ret.op = "SubmitRequest"
    /\ ret.result = "REQUEST_QUEUE_FULL"
    /\ Len(pending_requests) = config.max_pending_requests
    /\ \E i \in 1..Len(pending_requests) : pending_requests[i].cancelled
    /\ in_flight.tick # << >>
    /\ in_flight.batch # << >>

(***************************************************************************)
(* The frame of a tick                                                     *)
(***************************************************************************)
\* C33: after a successful tick to slot t the queue holds, in their old order,
\* exactly the records that were neither cancelled nor targeted at t, and the
\* transition recorded for t (in the buffer, or in the log of the anchor that
\* absorbed it) holds exactly the records targeted at t that were not cancelled.
C33_CollectFrame ==
    [][ret' = TickOk =>
          LET t == current_slot'
              taken == SelectSeq(pending_requests,
                                 LAMBDA r : ~r.cancelled /\ r.desc.target_slot = t)
              kept == SelectSeq(pending_requests,
                                LAMBDA r : ~r.cancelled /\ r.desc.target_slot # t)
          IN /\ \A i \in 1..Len(pending_requests') :
                    /\ ~pending_requests'[i].cancelled
                    /\ pending_requests'[i].desc.target_slot # t
             /\ pending_requests' = kept
             /\ IF pending_transitions' # << >>
                THEN /\ pending_transitions'[Len(pending_transitions')].slot_index = t
                     /\ pending_transitions'[Len(pending_transitions')].requests = taken
                ELSE anchors'[Len(anchors')].transition_log
                        = TransitionLog(pending_transitions) \o taken]_vars

\* C33 witness: a tick to slot 1 has taken one request and left one for a later
\* slot in the queue.
C33_Witness ==
    /\ ret = TickOk
    /\ current_slot = 1
    /\ Len(pending_requests) = 1
    /\ pending_requests[1].desc.target_slot > 1
    /\ Len(pending_transitions) = 1
    /\ Len(pending_transitions[1].requests) = 1


(***************************************************************************)
(* Termination: the safety cap, the lifecycle and the group counts         *)
(***************************************************************************)
\* C34: with a safety cap C > 0 the axis is terminated as soon as its elapsed
\* steps reach C; every successful tick adds at least one elapsed step, so at most
\* C ticks succeed and current_slot never exceeds C.
C34_SafetyCap ==
    termination_config.safety_cap > 0 =>
        /\ current_slot <= termination_config.safety_cap
        /\ termination_context.elapsed_steps >= current_slot
        /\ termination_context.elapsed_steps >= termination_config.safety_cap
              => lifecycle = "TERMINATED"

\* C34 witness: an axis with no other condition than a safety cap of 3 has been
\* terminated by it, and a further tick was refused.
C34_Witness ==
    /\ termination_config = [AxisTermination_DefaultConfig EXCEPT !.safety_cap = 3]
    /\ last_termination_reason = "SAFETY_CAP"
    /\ lifecycle = "TERMINATED"
    /\ current_slot > 1
    /\ ret = TickTerminated


\* C37: between ticks the lifecycle is TERMINATED exactly when
\* last_termination_reason is not NONE, and once the axis is terminated no later
\* step changes last_termination_reason.
C37_ReasonAgreesWithLifecycle ==
    [][/\ (lifecycle = "TERMINATED") <=> (last_termination_reason # "NONE")
       /\ (lifecycle' = "TERMINATED") <=> (last_termination_reason' # "NONE")
       /\ lifecycle = "TERMINATED" =>
             /\ lifecycle' = "TERMINATED"
             /\ last_termination_reason' = last_termination_reason]_vars

\* C37 witness: a terminated axis has refused a tick at a moment where another
\* condition of its policy, the external signal, was satisfied as well.
C37_Witness ==
    /\ ret = TickTerminated
    /\ last_termination_reason = "REQUEST_DRAIN"
    /\ termination_config.required_external_flags # 0
    /\ BitAnd(external_flags, termination_config.required_external_flags) # 0

(***************************************************************************)
(* Groups without an entry, and the keys of an enumeration                 *)
(***************************************************************************)
\* the conflict_group ids of a list of requests that address a key
GroupsOnKey(requests, key) == { r.desc.conflict_group : r \in OnKey(requests, key) }

C39_EnumeratedKeys ==
    ret.op = "ReconstructState" /\ ret.result = "OK" =>
        \A pair \in ret.enumerated :
            \E key \in Keys :
                /\ pair.key = [primary |-> ToWord(key.primary),
                               secondary |-> ToWord(key.secondary)]
                /\ KeyHashOf[key] \in DOMAIN ret.out
                /\ ret.out[KeyHashOf[key]] = pair.value

C38_BufferReplays ==
    LET newest == anchors[Len(anchors)]
    IN /\ Len(pending_transitions) = current_slot - last_anchor_slot
       /\ \A i \in 1..Len(pending_transitions) :
             pending_transitions[i].slot_index = last_anchor_slot + i
       /\ newest.slot_index = last_anchor_slot
       /\ \A s \in last_anchor_slot..current_slot :
             ReplayTransitionsToSlot(
                 newest,
                 RelevantTransitions(pending_transitions, newest.slot_index, s),
                 s) = history[s + 1]

\* C38 witness: an anchor was created by hand at slot 1 over a written state, and
\* the tick to slot 2 has buffered a transition that overwrites the value.
C38_Witness ==
    /\ current_slot = 2
    /\ last_anchor_slot = 1
    /\ ret = TickOk
    /\ Len(pending_transitions) = 1
    /\ anchors[Len(anchors)].state_snapshot # EmptyState
    /\ history[3] # history[2]


(***************************************************************************)
(* The worker pool                                                         *)
(***************************************************************************)
\* C31: when the workers and the tick thread keep running, WaitAll eventually
\* returns, whatever the interleaving of the waiting thread with the workers'
\* decrement and notify.
C31_WaitAllReturns == <>(pool.waiter = "returned")

\* C32: WaitAll has not returned while a task submitted before it is queued or
\* running: once it has returned, every submitted task has finished and no worker
\* is inside a task.
C32_WaitAllAfterTasks ==
    pool.waiter = "returned" =>
        /\ pool.tasks = 0
        /\ pool.finished = pool.submitted
        /\ \A w \in 1..PoolWorkers : pool.worker[w] # "task"

\* C32 witness: WaitAll has returned after three tasks ran, while the worker that
\* finished the last one has not yet notified.
C32_Witness ==
    /\ pool.waiter = "returned"
    /\ pool.submitted = 3
    /\ pool.finished = 3
    /\ \E w \in 1..PoolWorkers : pool.worker[w] = "notify"

=============================================================================
